---- MODULE Spec2Model ----
(***************************************************************************)
(* Kit Memory Extension: credential cipher (lib/crypto.js, SecureStorage)  *)
(* and session key manager (background.js).                                *)
(*                                                                         *)
(* JavaScript strings are sequences of code units (naturals), byte arrays  *)
(* are sequences of 0..255, objects are records whose DOMAIN is the set of *)
(* fields that are present.  null is Null for objects and NullStr for      *)
(* strings.  Time is counted in ticks of the clock.                        *)
(***************************************************************************)
EXTENDS Integers, Sequences, FiniteSets, Bags, TLC

\* ------------------------------------------------------------------------
\* Bounds of the model
\* ------------------------------------------------------------------------

\* concurrent activations of the handlers of background.js
MaxCalls == 2
\* bytes of a generated passphrase (32 in generateSecurePassphrase)
PassLen == 1
\* bytes of a salt (saltLength is 16) and of an iv (ivLength is 12)
SaltLen == 1
IvLen == 1

\* clock ticks in the 5 minutes of PASSPHRASE_TIMEOUT
TimeoutTicks == 2

\* security events logged after the service worker has started
MaxEvents == 3

\* pieces of text a sanitizer input is made of
MaxTokens == 3

\* clock ticks in the 5 minutes of cacheTimeout of the MemoryManager
cacheTimeout == 2

\* calls of storeMemory, searchMemories, processOfflineQueue and
\* handleMessage; writes of the MemoryManager
MaxApiCalls == 2

\* characters in the 50000 of maxLength in sanitizeForStorage
maxLength == 8

\* ------------------------------------------------------------------------
\* Values
\* ------------------------------------------------------------------------

Null == [null |-> TRUE]
NullStr == << -1 >>
Truthy(s) == s # NullStr /\ s # << >>

Ok(v) == [ok |-> TRUE, v |-> v]
Throw(msg) == [ok |-> FALSE, error |-> msg]

\* the values crypto.getRandomValues writes into a byte of a passphrase, and
\* into a byte of a salt or an iv (the program compares salts and ivs with
\* nothing, so one value stands for them)
RandBytes == {17, 200}
NonceBytes == {17}

RECURSIVE ByteArrays(_, _)
ByteArrays(n, bytes) ==
  IF n = 0 THEN { << >> }
  ELSE { Append(a, b) : a \in ByteArrays(n - 1, bytes), b \in bytes }

\* "https://a.supabase.co", "https://b.supabase.co", "http://a.supabase.co"
UrlA == <<104, 116, 116, 112, 115, 58, 47, 47, 97, 46, 115, 117, 112, 97, 98, 97, 115, 101, 46, 99, 111>>
UrlB == <<104, 116, 116, 112, 115, 58, 47, 47, 98, 46, 115, 117, 112, 97, 98, 97, 115, 101, 46, 99, 111>>
UrlHttp == <<104, 116, 116, 112, 58, 47, 47, 97, 46, 115, 117, 112, 97, 98, 97, 115, 101, 46, 99, 111>>
\* "eyJa.b.c", "eyJb.c.d", "eyJ"
KeyA == <<101, 121, 74, 97, 46, 98, 46, 99>>
KeyB == <<101, 121, 74, 98, 46, 99, 46, 100>>
KeyShort == <<101, 121, 74>>

\* chrome.runtime.id, shortened to "kit"
ExtensionId == <<107, 105, 116>>

\* ------------------------------------------------------------------------
\* Base64 (btoa / atob), UTF-8 (TextEncoder / TextDecoder), XOR
\* ------------------------------------------------------------------------

\* the character of a sextet: A-Z a-z 0-9 + /
B64Char(i) ==
  IF i < 26 THEN 65 + i
  ELSE IF i < 52 THEN 97 + (i - 26)
  ELSE IF i < 62 THEN 48 + (i - 52)
  ELSE IF i = 62 THEN 43 ELSE 47

B64Index(c) ==
  IF c \in 65..90 THEN c - 65
  ELSE IF c \in 97..122 THEN (c - 97) + 26
  ELSE IF c \in 48..57 THEN (c - 48) + 52
  ELSE IF c = 43 THEN 62 ELSE 63

\* btoa of a binary string (every code unit at most 255)
RECURSIVE btoa(_)
btoa(b) ==
  IF Len(b) = 0 THEN << >>
  ELSE IF Len(b) = 1 THEN
    << B64Char(b[1] \div 4), B64Char((b[1] % 4) * 16), 61, 61 >>
  ELSE IF Len(b) = 2 THEN
    << B64Char(b[1] \div 4),
       B64Char(((b[1] % 4) * 16) + (b[2] \div 16)),
       B64Char((b[2] % 16) * 4), 61 >>
  ELSE
    << B64Char(b[1] \div 4),
       B64Char(((b[1] % 4) * 16) + (b[2] \div 16)),
       B64Char(((b[2] % 16) * 4) + (b[3] \div 64)),
       B64Char(b[3] % 64) >> \o btoa(SubSeq(b, 4, Len(b)))

\* the sextets of an unpadded base64 text, decoded to bytes
RECURSIVE DecodeSextets(_)
DecodeSextets(s) ==
  IF Len(s) < 2 THEN << >>
  ELSE IF Len(s) = 2 THEN
    << (B64Index(s[1]) * 4) + (B64Index(s[2]) \div 16) >>
  ELSE IF Len(s) = 3 THEN
    << (B64Index(s[1]) * 4) + (B64Index(s[2]) \div 16),
       ((B64Index(s[2]) % 16) * 16) + (B64Index(s[3]) \div 4) >>
  ELSE
    << (B64Index(s[1]) * 4) + (B64Index(s[2]) \div 16),
       ((B64Index(s[2]) % 16) * 16) + (B64Index(s[3]) \div 4),
       ((B64Index(s[3]) % 4) * 64) + B64Index(s[4]) >>
    \o DecodeSextets(SubSeq(s, 5, Len(s)))

\* atob: Ok(bytes), or the InvalidCharacterError; u is the text without the
\* padding atob removes
atob(s) ==
  IF s = NullStr THEN Throw("InvalidCharacterError")
  ELSE LET u == IF Len(s) % 4 = 0 /\ Len(s) > 0 /\ s[Len(s)] = 61
                THEN IF s[Len(s) - 1] = 61 THEN SubSeq(s, 1, Len(s) - 2)
                     ELSE SubSeq(s, 1, Len(s) - 1)
                ELSE s
           IsB64Char(c) ==
             c \in 65..90 \/ c \in 97..122 \/ c \in 48..57 \/ c = 43 \/ c = 47
       IN
    IF Len(u) % 4 = 1 \/ \E i \in 1..Len(u) : ~IsB64Char(u[i])
    THEN Throw("InvalidCharacterError")
    ELSE Ok(DecodeSextets(u))

RECURSIVE Xor(_, _)
Xor(a, b) ==
  IF a = 0 /\ b = 0 THEN 0
  ELSE ((((a % 2) + (b % 2)) % 2)) + (2 * Xor(a \div 2, b \div 2))

\* TextEncoder.encode for code units below 2048
RECURSIVE TextEncode(_)
TextEncode(s) ==
  IF Len(s) = 0 THEN << >>
  ELSE (IF s[1] < 128 THEN << s[1] >>
        ELSE << 192 + (s[1] \div 64), 128 + (s[1] % 64) >>)
       \o TextEncode(Tail(s))

\* TextDecoder.decode: one and two byte forms, U+FFFD for anything else
RECURSIVE TextDecode(_)
TextDecode(b) ==
  IF Len(b) = 0 THEN << >>
  ELSE IF b[1] < 128 THEN << b[1] >> \o TextDecode(Tail(b))
  ELSE IF b[1] \in 194..223 /\ Len(b) > 1 /\ b[2] \in 128..191
    THEN << ((b[1] - 192) * 64) + (b[2] - 128) >> \o TextDecode(SubSeq(b, 3, Len(b)))
  ELSE << 65533 >> \o TextDecode(Tail(b))

\* SecureStorage.arrayBufferToBase64 of a byte array
arrayBufferToBase64(buffer) == btoa(buffer)

\* SecureStorage.base64ToArrayBuffer: Ok(bytes) or the error of atob
base64ToArrayBuffer(base64) == atob(base64)

\* ------------------------------------------------------------------------
\* SecureStorage (lib/crypto.js)
\* ------------------------------------------------------------------------

Undefined == [undefined |-> TRUE]

IsAlnum(c) == c \in 48..57 \/ c \in 65..90 \/ c \in 97..122
\* [a-zA-Z0-9_-]
IsTokenChar(c) == IsAlnum(c) \/ c = 95 \/ c = 45

\* credentials[field] is a non-empty string
HasString(credentials, field) ==
  field \in DOMAIN credentials /\ Truthy(credentials[field])

validateCredentials(credentials) ==
  LET \* /^https:\/\/[a-zA-Z0-9]+\.supabase\.co$/
      urlPattern(s) ==
        LET \* "https://" and ".supabase.co"
            UrlPrefix == <<104, 116, 116, 112, 115, 58, 47, 47>>
            UrlSuffix == <<46, 115, 117, 112, 97, 98, 97, 115, 101, 46, 99, 111>>
        IN
        /\ Len(s) > Len(UrlPrefix) + Len(UrlSuffix)
        /\ SubSeq(s, 1, Len(UrlPrefix)) = UrlPrefix
        /\ SubSeq(s, (Len(s) - Len(UrlSuffix)) + 1, Len(s)) = UrlSuffix
        /\ \A i \in (Len(UrlPrefix) + 1)..(Len(s) - Len(UrlSuffix)) : IsAlnum(s[i])
      \* /^eyJ[a-zA-Z0-9_-]+\.[a-zA-Z0-9_-]+\.[a-zA-Z0-9_-]+$/
      keyPattern(s) ==
        /\ Len(s) > 3
        /\ SubSeq(s, 1, 3) = <<101, 121, 74>>
        /\ \E i, j \in 1..Len(s) :
             /\ 4 < i /\ i + 1 < j /\ j < Len(s)
             /\ s[i] = 46 /\ s[j] = 46
             /\ \A k \in 4..Len(s) : k \notin {i, j} => IsTokenChar(s[k])
  IN
  IF credentials = Undefined \/ credentials = Null THEN FALSE
  ELSE IF ~HasString(credentials, "supabaseUrl") THEN FALSE
  ELSE IF ~HasString(credentials, "supabaseKey") THEN FALSE
  ELSE IF ~urlPattern(credentials.supabaseUrl) THEN FALSE
  ELSE IF ~keyPattern(credentials.supabaseKey) THEN FALSE
  ELSE TRUE

generateSecurePassphrase(array) == arrayBufferToBase64(array)

\* the passphrases the extension can generate
Passphrases == { generateSecurePassphrase(a) : a \in ByteArrays(PassLen, RandBytes) }

\* Web Crypto, idealised.  env says which primitives work: env.kdf for
\* importKey/deriveKey, env.aes for encrypt.  A derived key is determined by
\* the bytes of the passphrase and the salt; a ciphertext opens under the
\* key and iv that sealed it and under no other.
Envs == [kdf : BOOLEAN, aes : BOOLEAN]
EnvOk == [kdf |-> TRUE, aes |-> TRUE]

\* a derivation that leaves the passphrase out of the key
deriveKeyWithoutPassphrase(passphrase, salt, env) ==
  IF env.kdf
  THEN Ok([pw |-> << >>, salt |-> salt])
  ELSE Throw("Invalid passphrase or corrupted salt")

deriveKeyFromPassphrase(passphrase, salt, env) ==
  IF env.kdf
  THEN Ok([pw |-> TextEncode(passphrase), salt |-> salt])
  ELSE Throw("Invalid passphrase or corrupted salt")

subtleDecrypt(key, iv, ciphertext) ==
  IF "sealed" \in DOMAIN ciphertext /\ ciphertext.key = key /\ ciphertext.iv = iv
  THEN Ok(ciphertext.sealed)
  ELSE Throw("OperationError")

\* JSON.stringify gives no text for undefined; the encoder then encodes ""
JSONstringify(v) == IF v = Undefined THEN Undefined ELSE [json |-> v]
JSONparse(text) ==
  IF "json" \in DOMAIN text THEN Ok(text.json) ELSE Throw("SyntaxError")

\* base64 of a ciphertext, which the model keeps opaque
cipherToBase64(ciphertext) == [b64 |-> ciphertext]
base64ToCipher(base64) ==
  IF "b64" \in DOMAIN base64 THEN Ok(base64.b64) ELSE Throw("InvalidCharacterError")

EncryptError == "Failed to encrypt credentials"
DecryptError == "Failed to decrypt credentials - invalid passphrase or corrupted data"

\* encryptCredentials: the result and the primitives invoked, in order
encryptCredentials(credentials, passphrase, salt, iv, env) ==
  LET key == deriveKeyFromPassphrase(passphrase, salt, env)
      text == JSONstringify(credentials)
      data == IF text = Undefined THEN [empty |-> TRUE] ELSE text
      encrypted == IF env.aes
                   THEN Ok([sealed |-> data, key |-> key.v, iv |-> iv])
                   ELSE Throw("OperationError")
  IN IF ~key.ok
     THEN [res |-> Throw(EncryptError),
           prims |-> <<"getRandomValues", "getRandomValues", "deriveKey">>]
     ELSE IF ~encrypted.ok
     THEN [res |-> Throw(EncryptError),
           prims |-> <<"getRandomValues", "getRandomValues", "deriveKey", "encrypt">>]
     ELSE [res |-> Ok([encrypted |-> cipherToBase64(encrypted.v),
                       salt |-> arrayBufferToBase64(salt),
                       iv |-> arrayBufferToBase64(iv),
                       version |-> 1,
                       algorithm |-> "AES-GCM",
                       timestamp |-> "Date.now()"]),
           prims |-> <<"getRandomValues", "getRandomValues", "deriveKey", "encrypt">>]

\* a field of the blob as decryptCredentials reads it
BlobString(encryptedData, field) ==
  IF field \in DOMAIN encryptedData THEN encryptedData[field] ELSE NullStr

\* a try block that reads the ciphertext from a field encrypt does not write
decryptTryOtherField(encryptedData, passphrase, env) ==
  IF encryptedData = Null THEN Throw("TypeError")
  ELSE
  LET salt == base64ToArrayBuffer(BlobString(encryptedData, "salt"))
      iv == base64ToArrayBuffer(BlobString(encryptedData, "iv"))
      ciphertext == IF "encryptedData" \in DOMAIN encryptedData
                    THEN base64ToCipher(encryptedData.encryptedData)
                    ELSE Throw("InvalidCharacterError")
  IN IF ~salt.ok THEN salt
     ELSE IF ~iv.ok THEN iv
     ELSE IF ~ciphertext.ok THEN ciphertext
     ELSE LET key == deriveKeyFromPassphrase(passphrase, salt.v, env) IN
       IF ~key.ok THEN key
       ELSE LET decrypted == subtleDecrypt(key.v, iv.v, ciphertext.v) IN
         IF ~decrypted.ok THEN decrypted
         ELSE JSONparse(decrypted.v)

\* the try block of decryptCredentials: Ok(credentials) or the first error
decryptTry(encryptedData, passphrase, env) ==
  IF encryptedData = Null THEN Throw("TypeError")
  ELSE
  LET salt == base64ToArrayBuffer(BlobString(encryptedData, "salt"))
      iv == base64ToArrayBuffer(BlobString(encryptedData, "iv"))
      ciphertext == IF "encrypted" \in DOMAIN encryptedData
                    THEN base64ToCipher(encryptedData.encrypted)
                    ELSE Throw("InvalidCharacterError")
  IN IF ~salt.ok THEN salt
     ELSE IF ~iv.ok THEN iv
     ELSE IF ~ciphertext.ok THEN ciphertext
     ELSE LET key == deriveKeyFromPassphrase(passphrase, salt.v, env) IN
       IF ~key.ok THEN key
       ELSE LET decrypted == subtleDecrypt(key.v, iv.v, ciphertext.v) IN
         IF ~decrypted.ok THEN decrypted
         ELSE JSONparse(decrypted.v)

\* a catch block that rethrows the error it caught
decryptCredentialsRethrow(encryptedData, passphrase, env) ==
  decryptTry(encryptedData, passphrase, env)

decryptCredentials(encryptedData, passphrase, env) ==
  LET r == decryptTry(encryptedData, passphrase, env)
  IN IF r.ok THEN r ELSE Throw(DecryptError)

\* ------------------------------------------------------------------------
\* background.js: state
\* ------------------------------------------------------------------------

VARIABLES
  storage,              \* chrome.storage.local: a record of the keys present
  encryptedCredentials, \* the blob in memory, or Null
  sessionPassphrase,    \* the cached passphrase, or NullStr
  userId,               \* NullStr until loadConfig sets it
  passphraseTimeout,    \* the id setTimeout returned last, 0 before the first
  timers,               \* the pending expiry timeouts: [id, left (ticks)]
  calls,                \* the activations of the async functions
  sinceReset,           \* history: ticks the cached passphrase has been held
                        \*   since the timeout was last reset (0: none cached)
  cachedByStale,        \* history: the cached passphrase was cached by a call
                        \*   that was issued before the last idle event
  migrationsPersisted,  \* history: runs of the encrypt-and-persist branch
  cipher,               \* the direct caller of SecureStorage's cipher
  logged,               \* history: the security events logged, in order
  sanit,                \* the direct caller of InputSanitizer
  manager,              \* the MemoryManager: its cache, its backend, the clock
  sent,                 \* the requests sent to the remote API, in order
  replayTimers,         \* the pending timeouts of processOfflineQueue
  apiCalls              \* history: the handler calls made so far

remoteVars == << sent, replayTimers, apiCalls >>

otherVars == << logged, sanit, manager, remoteVars >>

vars == << storage, encryptedCredentials, sessionPassphrase, userId,
           passphraseTimeout, timers, calls, sinceReset, cachedByStale,
           migrationsPersisted, cipher, otherVars >>

memVars == << encryptedCredentials, sessionPassphrase, userId,
              passphraseTimeout, timers, sinceReset, cachedByStale >>

\* the activations in flight, or finished and not yet answered: a bag of
\* records, as activations with the same local state are interchangeable
Activations == BagToSet(calls)

NoRet == [none |-> TRUE]

SanitOff == [pc |-> "off"]

\* new MemoryManager(supabaseClient): the cache is empty.  cache is the Map,
\* in insertion order; backend is what the Supabase client reads and writes
\* (the number of memories of the user, and, as history, the number of writes
\* made); now is the clock; completed is history: the write of the last
\* storeMemory or deleteMemories that has returned
ManagerOff ==
  [cache |-> << >>, backend |-> [memories |-> 0, version |-> 0], now |-> 0,
   completed |-> 0]

InitRemote ==
  /\ sent = << >>
  /\ replayTimers = 0
  /\ apiCalls = 0

InitOther ==
  /\ logged = << >>
  /\ sanit = SanitOff
  /\ manager = ManagerOff
  /\ InitRemote

IdleCall ==
  [op |-> "none", pc |-> "idle", arg |-> Undefined, passphrase |-> NullStr,
   salt |-> << >>, iv |-> << >>, encrypted |-> Null, readKey |-> FALSE,
   cachedAtStart |-> FALSE, stale |-> FALSE, ret |-> NoRet,
   caller |-> Undefined, credentials |-> Undefined]

\* the activation c has returned r (or thrown it) to its caller: a function
\* of the extension that awaits it and goes on with r, or the event that
\* called it; history: the credentials object c held is kept as c left it
Returned(c, r) ==
  IF c.caller = Undefined
    THEN [IdleCall EXCEPT !.op = c.op, !.pc = "done", !.ret = r,
                          !.credentials = c.credentials]
    ELSE [c.caller EXCEPT !.ret = r]

CanStart == BagCardinality(calls) < MaxCalls

\* the activation x begins; the activation a becomes x
Started(x) == calls (+) SetToBag({x})
Moved(a, x) == (calls (-) SetToBag({a})) (+) SetToBag({x})

\* crypto.randomUUID(): "u"
Uuid == <<117>>

\* chrome.storage.local
Has(s, k) == k \in DOMAIN s
StorageSet(s, items) == items @@ s
StorageRemove(s, keys) == [k \in DOMAIN s \ keys |-> s[k]]
GetString(s, k) == IF Has(s, k) THEN s[k] ELSE NullStr
GetBlob(s, k) == IF Has(s, k) THEN s[k] ELSE Null
GetFlag(s, k) == Has(s, k) /\ s[k]

\* ------------------------------------------------------------------------
\* background.js: installation key
\* ------------------------------------------------------------------------

\* data[i] ^ salt[i % salt.length]
XorWith(data, salt) ==
  [i \in 1..Len(data) |-> Xor(data[i], salt[((i - 1) % Len(salt)) + 1])]

encryptInstallationKey(passphrase) ==
  btoa(XorWith(TextEncode(passphrase), TextEncode(ExtensionId)))

decryptInstallationKey(encryptedKey) ==
  LET encrypted == atob(encryptedKey)
  IN IF ~encrypted.ok THEN encrypted
     ELSE Ok(TextDecode(XorWith(encrypted.v, TextEncode(ExtensionId))))

\* ------------------------------------------------------------------------
\* background.js: the expiry timeout
\* ------------------------------------------------------------------------

clearTimeout(ts, id) == { t \in ts : t.id # id }

\* the id setTimeout returns: ids are never compared except with the ids of
\* pending timeouts, so the least id no pending timeout has stands for a
\* fresh one (passphraseTimeout, the only reference, is overwritten with it)
NewTimerId(ts, held) ==
  CHOOSE n \in 1..(Cardinality(ts) + 1) :
    /\ \A t \in clearTimeout(ts, held) : t.id # n
    /\ \A m \in 1..(n - 1) : \E t \in clearTimeout(ts, held) : t.id = m

\* a reset that arms the new timeout and leaves the old one pending
ResetTimeoutNoClear(ts, held) ==
  ts \cup { [id |-> NewTimerId(ts, held), left |-> TimeoutTicks] }

\* clearTimeout(passphraseTimeout); passphraseTimeout = setTimeout(...)
ResetTimeout(ts, held) ==
  clearTimeout(ts, held) \cup
    { [id |-> NewTimerId(ts, held), left |-> TimeoutTicks] }

\* ------------------------------------------------------------------------
\* background.js: getCredentials
\* ------------------------------------------------------------------------

\* getCredentials() runs to its first await; caller is the function that
\* awaits it, if any, and Place puts the activation among the others, in
\* the place of the activation from which the caller went on, if any
getCredentials(caller, from) ==
  LET c == [IdleCall EXCEPT !.op = "getCredentials",
                         !.cachedAtStart = Truthy(sessionPassphrase),
                         !.caller = caller]
      Place(x) == IF from = Undefined THEN Started(x) ELSE Moved(from, x)
  IN IF encryptedCredentials = Null
     THEN /\ calls' = Place(Returned(c, Ok(Null)))
          /\ UNCHANGED memVars
     ELSE IF ~Truthy(sessionPassphrase)
     THEN /\ calls' = Place([c EXCEPT !.pc = "G_getKey"])
          /\ UNCHANGED memVars
     ELSE /\ timers' = ResetTimeout(timers, passphraseTimeout)
          /\ passphraseTimeout' = NewTimerId(timers, passphraseTimeout)
          /\ sinceReset' = 0
          /\ calls' = Place([c EXCEPT !.pc = "G_decrypt",
                         !.encrypted = encryptedCredentials,
                         !.passphrase = sessionPassphrase])
          /\ UNCHANGED << encryptedCredentials, sessionPassphrase, userId,
                          cachedByStale >>

\* a getCredentials whose cached path leaves the timeout running
GetStartNoReset ==
  /\ CanStart
  /\ LET c == [IdleCall EXCEPT !.op = "getCredentials",
                               !.cachedAtStart = Truthy(sessionPassphrase)]
     IN IF encryptedCredentials = Null
        THEN /\ calls' = Started(Returned(c, Ok(Null)))
        ELSE IF ~Truthy(sessionPassphrase)
        THEN /\ calls' = Started([c EXCEPT !.pc = "G_getKey"])
        ELSE /\ calls' = Started([c EXCEPT !.pc = "G_decrypt",
                            !.encrypted = encryptedCredentials,
                            !.passphrase = sessionPassphrase])
  /\ UNCHANGED << storage, memVars, migrationsPersisted, cipher, otherVars >>

\* getCredentials is called and runs to its first await
GetStart ==
  /\ CanStart
  /\ getCredentials(Undefined, Undefined)
  /\ UNCHANGED << storage, migrationsPersisted, cipher, otherVars >>

\* storage.get('installationKey') resolves: the passphrase is recovered and
\* cached, the timeout reset and decryptCredentials called
GGetKey(a) ==
  /\ a.pc = "G_getKey"
  /\ LET c == [a EXCEPT !.readKey = TRUE]
         installationKey == GetString(storage, "installationKey")
         recovered == IF Truthy(installationKey)
                      THEN decryptInstallationKey(installationKey)
                      ELSE Throw("No installation key found")
     IN IF ~recovered.ok
        THEN /\ sessionPassphrase' = NullStr
             /\ sinceReset' = 0
             /\ cachedByStale' = FALSE
             /\ calls' = Moved(a, Returned(c, Ok(Null)))
             /\ UNCHANGED << encryptedCredentials, userId, passphraseTimeout,
                             timers >>
        ELSE /\ sessionPassphrase' = recovered.v
             /\ cachedByStale' = c.stale
             /\ timers' = ResetTimeout(timers, passphraseTimeout)
             /\ passphraseTimeout' = NewTimerId(timers, passphraseTimeout)
             /\ sinceReset' = 0
             /\ calls' = Moved(a, [c EXCEPT !.pc = "G_decrypt",
                            !.encrypted = encryptedCredentials,
                            !.passphrase = recovered.v])
             /\ UNCHANGED << encryptedCredentials, userId >>
  /\ UNCHANGED << storage, migrationsPersisted, cipher, otherVars >>

\* a getCredentials without its catch block: the error reaches the caller
GDecryptRethrow(a) ==
  /\ a.pc = "G_decrypt"
  /\ LET credentials == decryptCredentials(a.encrypted, a.passphrase, EnvOk)
     IN /\ calls' = Moved(a, Returned(a, credentials))
        /\ UNCHANGED << sessionPassphrase, sinceReset, cachedByStale >>
  /\ UNCHANGED << storage, encryptedCredentials, userId, passphraseTimeout,
                  timers, migrationsPersisted, cipher, otherVars >>

\* decryptCredentials settles
GDecrypt(a) ==
  /\ a.pc = "G_decrypt"
  /\ LET c == a
         credentials == decryptCredentials(c.encrypted, c.passphrase, EnvOk)
     IN IF credentials.ok
        THEN /\ calls' = Moved(a, Returned(c, Ok(credentials.v)))
             /\ UNCHANGED << sessionPassphrase, sinceReset, cachedByStale >>
        ELSE /\ calls' = Moved(a, Returned(c, Ok(Null)))
             /\ sessionPassphrase' = NullStr
             /\ sinceReset' = 0
             /\ cachedByStale' = FALSE
  /\ UNCHANGED << storage, encryptedCredentials, userId, passphraseTimeout,
                  timers, migrationsPersisted, cipher, otherVars >>

\* ------------------------------------------------------------------------
\* background.js: updateConfig
\* ------------------------------------------------------------------------

\* the configurations the popup and other callers send
ConfigInputs ==
  { [supabaseUrl |-> UrlB, supabaseKey |-> KeyB, enabled |-> FALSE],
    [supabaseUrl |-> UrlHttp, supabaseKey |-> KeyB],
    [supabaseUrl |-> UrlB, supabaseKey |-> KeyShort],
    [supabaseUrl |-> UrlB] }

Success == Ok([success |-> TRUE])
Failure(msg) == Ok([success |-> FALSE, error |-> msg])

\* const { supabaseUrl, supabaseKey, ...otherConfig } = config
OtherConfig(config) == StorageRemove(config, {"supabaseUrl", "supabaseKey"})

\* updateConfig from "Store other config items" on
AfterCredentials(c) ==
  IF DOMAIN OtherConfig(c.arg) # {}
  THEN [c EXCEPT !.pc = "U_setOther"]
  ELSE Returned(c, Success)

\* an updateConfig that encrypts what it was given without validating it
UpdStartNoValidate(config) ==
  /\ CanStart
  /\ LET c == [IdleCall EXCEPT !.op = "updateConfig", !.arg = config]
     IN IF HasString(config, "supabaseUrl") /\ HasString(config, "supabaseKey")
        THEN \E array \in ByteArrays(PassLen, RandBytes), salt \in ByteArrays(SaltLen, NonceBytes),
                iv \in ByteArrays(IvLen, NonceBytes) :
               calls' = Started([c EXCEPT !.pc = "U_encrypt",
                           !.passphrase = generateSecurePassphrase(array),
                           !.salt = salt, !.iv = iv])
        ELSE calls' = Started(AfterCredentials(c))
  /\ UNCHANGED << storage, memVars, migrationsPersisted, cipher, otherVars >>

UpdStart(config) ==
  /\ CanStart
  /\ LET c == [IdleCall EXCEPT !.op = "updateConfig", !.arg = config]
     IN IF HasString(config, "supabaseUrl") /\ HasString(config, "supabaseKey")
        THEN IF ~validateCredentials(config)
             THEN calls' = Started(Returned(c, Failure("Invalid credential format")))
             ELSE \E array \in ByteArrays(PassLen, RandBytes), salt \in ByteArrays(SaltLen, NonceBytes),
                     iv \in ByteArrays(IvLen, NonceBytes) :
                    calls' = Started([c EXCEPT !.pc = "U_encrypt",
                                !.passphrase = generateSecurePassphrase(array),
                                !.salt = salt, !.iv = iv])
        ELSE calls' = Started(AfterCredentials(c))
  /\ UNCHANGED << storage, memVars, migrationsPersisted, cipher, otherVars >>

UEncrypt(a) ==
  /\ a.pc = "U_encrypt"
  /\ \E env \in Envs :
       LET c == a
           encrypted == encryptCredentials(
             [supabaseUrl |-> c.arg.supabaseUrl, supabaseKey |-> c.arg.supabaseKey],
             c.passphrase, c.salt, c.iv, env).res
       IN calls' = Moved(a, IF encrypted.ok
            THEN [c EXCEPT !.pc = "U_set", !.encrypted = encrypted.v]
            ELSE Returned(c, Failure(encrypted.error)))
  /\ UNCHANGED << storage, memVars, migrationsPersisted, cipher, otherVars >>

\* an updateConfig that stores the blob and leaves the passphrase uncached
USetNoCache(a) ==
  /\ a.pc = "U_set"
  /\ LET c == a IN
     \E ok \in BOOLEAN :
       IF ok
       THEN /\ storage' = StorageSet(storage,
                 [encryptedCredentials |-> c.encrypted,
                  installationKey |-> encryptInstallationKey(c.passphrase)])
            /\ encryptedCredentials' = c.encrypted
            /\ calls' = Moved(a, AfterCredentials(c))
            /\ UNCHANGED << sessionPassphrase, userId, passphraseTimeout,
                            timers, sinceReset, cachedByStale >>
       ELSE /\ calls' = Moved(a, Returned(c, Failure("storage error")))
            /\ UNCHANGED << storage, memVars >>
  /\ UNCHANGED << migrationsPersisted, cipher, otherVars >>

\* storage.set settles; on success the local state is updated
USet(a) ==
  /\ a.pc = "U_set"
  /\ LET c == a IN
     \E ok \in BOOLEAN :
       IF ok
       THEN /\ storage' = StorageSet(storage,
                 [encryptedCredentials |-> c.encrypted,
                  installationKey |-> encryptInstallationKey(c.passphrase)])
            /\ encryptedCredentials' = c.encrypted
            /\ sessionPassphrase' = c.passphrase
            /\ cachedByStale' = c.stale
            /\ timers' = ResetTimeout(timers, passphraseTimeout)
            /\ passphraseTimeout' = NewTimerId(timers, passphraseTimeout)
            /\ sinceReset' = 0
            /\ calls' = Moved(a, AfterCredentials(c))
            /\ UNCHANGED userId
       ELSE /\ calls' = Moved(a, Returned(c, Failure("storage error")))
            /\ UNCHANGED << storage, memVars >>
  /\ UNCHANGED << migrationsPersisted, cipher, otherVars >>

USetOther(a) ==
  /\ a.pc = "U_setOther"
  /\ LET c == a IN
     \E ok \in BOOLEAN :
       IF ok
       THEN /\ storage' = StorageSet(storage, OtherConfig(c.arg))
            /\ calls' = Moved(a, Returned(c, Success))
       ELSE /\ calls' = Moved(a, Returned(c, Failure("storage error")))
            /\ UNCHANGED storage
  /\ UNCHANGED << memVars, migrationsPersisted, cipher, otherVars >>

\* ------------------------------------------------------------------------
\* background.js: loadConfig and migrateFromPlaintext
\* ------------------------------------------------------------------------

\* loadConfig is called (at the top level or by the onStartup listener)
LoadStart ==
  /\ CanStart
  /\ calls' = Started([IdleCall EXCEPT !.op = "loadConfig", !.pc = "L_get"])
  /\ UNCHANGED << storage, memVars, migrationsPersisted, cipher, otherVars >>

\* a loadConfig that leaves encryptedCredentials as it is
LGetNoLoad(a) ==
  /\ a.pc = "L_get"
  /\ LET c == a IN
     IF ~GetFlag(storage, "credentialsMigrated")
     THEN /\ calls' = Moved(a, [c EXCEPT !.pc = "M_get"])
          /\ UNCHANGED << encryptedCredentials, userId >>
     ELSE /\ UNCHANGED encryptedCredentials
          /\ IF Truthy(GetString(storage, "userId"))
             THEN /\ userId' = storage.userId
                  /\ calls' = Moved(a, Returned(c, Ok(Undefined)))
             ELSE /\ userId' = Uuid
                  /\ calls' = Moved(a, [c EXCEPT !.pc = "L_setUser", !.arg = [userId |-> Uuid]])
  /\ UNCHANGED << storage, sessionPassphrase, passphraseTimeout, timers,
                  sinceReset, cachedByStale, migrationsPersisted, cipher, otherVars >>

\* storage.get([...]) of loadConfig resolves
LGet(a) ==
  /\ a.pc = "L_get"
  /\ LET c == a IN
     IF ~GetFlag(storage, "credentialsMigrated")
     THEN /\ calls' = Moved(a, [c EXCEPT !.pc = "M_get"])
          /\ UNCHANGED << encryptedCredentials, userId >>
     ELSE /\ encryptedCredentials' = GetBlob(storage, "encryptedCredentials")
          /\ IF Truthy(GetString(storage, "userId"))
             THEN /\ userId' = storage.userId
                  /\ calls' = Moved(a, Returned(c, Ok(Undefined)))
             ELSE /\ userId' = Uuid
                  /\ calls' = Moved(a, [c EXCEPT !.pc = "L_setUser", !.arg = [userId |-> Uuid]])
  /\ UNCHANGED << storage, sessionPassphrase, passphraseTimeout, timers,
                  sinceReset, cachedByStale, migrationsPersisted, cipher, otherVars >>

\* storage.set({ userId }) settles; a failure is caught and logged
LSetUser(a) ==
  /\ a.pc = "L_setUser"
  /\ \E ok \in BOOLEAN :
       storage' = IF ok THEN StorageSet(storage, a.arg) ELSE storage
  /\ calls' = Moved(a, Returned(a, Ok(Undefined)))
  /\ UNCHANGED << memVars, migrationsPersisted, cipher, otherVars >>

\* storage.get(['supabaseUrl', 'supabaseKey']) of migrateFromPlaintext resolves
MGet(a) ==
  /\ a.pc = "M_get"
  /\ LET c == a IN
     IF HasString(storage, "supabaseUrl") /\ HasString(storage, "supabaseKey")
     THEN \E array \in ByteArrays(PassLen, RandBytes), salt \in ByteArrays(SaltLen, NonceBytes),
             iv \in ByteArrays(IvLen, NonceBytes) :
            calls' = Moved(a, [c EXCEPT !.pc = "M_encrypt",
                        !.arg = [supabaseUrl |-> storage.supabaseUrl,
                                 supabaseKey |-> storage.supabaseKey],
                        !.passphrase = generateSecurePassphrase(array),
                        !.salt = salt, !.iv = iv])
     ELSE calls' = Moved(a, [c EXCEPT !.pc = "M_setNoop"])
  /\ UNCHANGED << storage, memVars, migrationsPersisted, cipher, otherVars >>

\* encryptCredentials settles; an error is rethrown, then caught by loadConfig
MEncrypt(a) ==
  /\ a.pc = "M_encrypt"
  /\ \E env \in Envs :
       LET c == a
           encrypted == encryptCredentials(c.arg, c.passphrase, c.salt, c.iv, env).res
       IN IF encrypted.ok
          THEN /\ calls' = Moved(a, [c EXCEPT !.pc = "M_set", !.encrypted = encrypted.v])
          ELSE /\ calls' = Moved(a, Returned(c, Ok(Undefined)))
  /\ UNCHANGED << storage, memVars, migrationsPersisted, cipher, otherVars >>

\* a migration that goes on to the removal when the write has failed
MSetSwallow(a) ==
  /\ a.pc = "M_set"
  /\ LET c == a IN
     \E ok \in BOOLEAN :
       IF ok
       THEN /\ storage' = StorageSet(storage,
                 [encryptedCredentials |-> c.encrypted,
                  credentialsMigrated |-> TRUE,
                  migrationDate |-> "Date.now()",
                  installationKey |-> encryptInstallationKey(c.passphrase)])
            /\ migrationsPersisted' = migrationsPersisted + 1
            /\ calls' = Moved(a, [c EXCEPT !.pc = "M_remove"])
       ELSE /\ calls' = Moved(a, [c EXCEPT !.pc = "M_remove"])
            /\ UNCHANGED << storage, migrationsPersisted >>
  /\ UNCHANGED << memVars, cipher, otherVars >>

\* the encrypted version and the installation key are stored
MSet(a) ==
  /\ a.pc = "M_set"
  /\ LET c == a IN
     \E ok \in BOOLEAN :
       IF ok
       THEN /\ storage' = StorageSet(storage,
                 [encryptedCredentials |-> c.encrypted,
                  credentialsMigrated |-> TRUE,
                  migrationDate |-> "Date.now()",
                  installationKey |-> encryptInstallationKey(c.passphrase)])
            /\ migrationsPersisted' = migrationsPersisted + 1
            /\ calls' = Moved(a, [c EXCEPT !.pc = "M_remove"])
       ELSE /\ calls' = Moved(a, Returned(c, Ok(Undefined)))
            /\ UNCHANGED << storage, migrationsPersisted >>
  /\ UNCHANGED << memVars, cipher, otherVars >>

\* the plaintext versions are removed; loadConfig reloads
MRemove(a) ==
  /\ a.pc = "M_remove"
  /\ storage' = StorageRemove(storage, {"supabaseUrl", "supabaseKey"})
  /\ calls' = Moved(a, [IdleCall EXCEPT !.op = "loadConfig", !.pc = "L_get",
                        !.stale = a.stale])
  /\ UNCHANGED << memVars, migrationsPersisted, cipher, otherVars >>

\* no credentials to migrate: storage.set({ credentialsMigrated: true })
MSetNoop(a) ==
  /\ a.pc = "M_setNoop"
  /\ LET c == a IN
     \E ok \in BOOLEAN :
       IF ok
       THEN /\ storage' = StorageSet(storage, [credentialsMigrated |-> TRUE])
            /\ calls' = Moved(a, [c EXCEPT !.pc = "L_get"])
       ELSE /\ calls' = Moved(a, Returned(c, Ok(Undefined)))
            /\ UNCHANGED storage
  /\ UNCHANGED << memVars, migrationsPersisted, cipher, otherVars >>

\* the caller of a finished activation takes its result
Respond(a) ==
  /\ a.pc = "done"
  /\ calls' = calls (-) SetToBag({a})
  /\ UNCHANGED << storage, memVars, migrationsPersisted, cipher, otherVars >>

\* ------------------------------------------------------------------------
\* background.js: expiry timeout and idle listener
\* ------------------------------------------------------------------------

\* the callback of the expiry timeout runs
TimerFire ==
  /\ \E t \in timers :
       /\ t.left = 0
       /\ timers' = timers \ {t}
  /\ sessionPassphrase' = NullStr
  /\ sinceReset' = 0
  /\ cachedByStale' = FALSE
  /\ UNCHANGED << storage, encryptedCredentials, userId, passphraseTimeout,
                  calls, migrationsPersisted, cipher, otherVars >>

\* chrome.idle.onStateChanged; history: Interrupted marks the activations
\* that were in flight when the idle event came
IdleEvent ==
  /\ \E state \in {"active", "idle", "locked"} :
       LET Interrupted(a) ==
             IF a.pc # "done" THEN [a EXCEPT !.stale = TRUE] ELSE a
       IN
       IF state = "idle" \/ state = "locked"
       THEN /\ sessionPassphrase' = NullStr
            /\ timers' = clearTimeout(timers, passphraseTimeout)
            /\ sinceReset' = 0
            /\ cachedByStale' = FALSE
            /\ calls' = BagOfAll(Interrupted, calls)
       ELSE UNCHANGED << sessionPassphrase, timers, calls, sinceReset,
                         cachedByStale >>
  /\ UNCHANGED << storage, encryptedCredentials, userId, passphraseTimeout,
                  migrationsPersisted, cipher, otherVars >>

\* the clock ticks; a timeout that is due runs before the next tick
Tick ==
  /\ timers # {} \/ sessionPassphrase # NullStr
  /\ \A t \in timers : t.left > 0
  /\ timers' = { [t EXCEPT !.left = t.left - 1] : t \in timers }
  /\ sinceReset' = IF sessionPassphrase = NullStr \/ sinceReset > TimeoutTicks
                   THEN sinceReset
                   ELSE sinceReset + 1
  /\ UNCHANGED << storage, encryptedCredentials, sessionPassphrase, userId,
                  passphraseTimeout, calls, cachedByStale, migrationsPersisted,
                  cipher, otherVars >>

\* ------------------------------------------------------------------------
\* lib/crypto.js: SecureStorage.migrateToEncrypted, called by a client of the
\* class
\* ------------------------------------------------------------------------

\* the credential structures handed to SecureStorage
CredentialInputs ==
  { [supabaseUrl |-> UrlA, supabaseKey |-> KeyA],
    [supabaseUrl |-> UrlHttp, supabaseKey |-> KeyShort],
    [supabaseUrl |-> UrlA],
    [supabaseKey |-> KeyA],
    Undefined }

XStart(plaintextCreds, passphrase) ==
  /\ CanStart
  /\ LET c == [IdleCall EXCEPT !.op = "migrateToEncrypted",
                               !.arg = plaintextCreds,
                               !.passphrase = passphrase]
     IN IF ~validateCredentials(plaintextCreds)
        THEN calls' = Started(Returned(c, Throw("Invalid credential format")))
        ELSE \E salt \in ByteArrays(SaltLen, NonceBytes), iv \in ByteArrays(IvLen, NonceBytes) :
               calls' = Started([c EXCEPT !.pc = "X_encrypt", !.salt = salt, !.iv = iv])
  /\ UNCHANGED << storage, memVars, migrationsPersisted, cipher, otherVars >>

XEncrypt(a) ==
  /\ a.pc = "X_encrypt"
  /\ \E env \in Envs :
       LET c == a
           encrypted == encryptCredentials(c.arg, c.passphrase, c.salt, c.iv, env).res
       IN calls' = Moved(a, IF encrypted.ok
            THEN [c EXCEPT !.pc = "X_set", !.encrypted = encrypted.v]
            ELSE Returned(c, Throw(encrypted.error)))
  /\ UNCHANGED << storage, memVars, migrationsPersisted, cipher, otherVars >>

XSet(a) ==
  /\ a.pc = "X_set"
  /\ LET c == a IN
     \E ok \in BOOLEAN :
       IF ok
       THEN /\ storage' = StorageSet(storage,
                 [encryptedCredentials |-> c.encrypted,
                  credentialsMigrated |-> TRUE,
                  migrationDate |-> "Date.now()"])
            /\ calls' = Moved(a, [c EXCEPT !.pc = "X_remove"])
       ELSE /\ calls' = Moved(a, Returned(c, Throw("storage error")))
            /\ UNCHANGED storage
  /\ UNCHANGED << memVars, migrationsPersisted, cipher, otherVars >>

XRemove(a) ==
  /\ a.pc = "X_remove"
  /\ storage' = StorageRemove(storage, {"supabaseUrl", "supabaseKey"})
  /\ calls' = Moved(a, Returned(a, Ok([value |-> TRUE])))
  /\ UNCHANGED << memVars, migrationsPersisted, cipher, otherVars >>

\* ------------------------------------------------------------------------
\* A direct caller of encryptCredentials and decryptCredentials: it encrypts
\* a structure, the stored blob may get damaged, and it decrypts
\* ------------------------------------------------------------------------

CipherOff ==
  [pc |-> "off", credentials |-> Undefined, passphrase |-> NullStr,
   blob |-> Null, prims |-> << >>, encrypted |-> NoRet, damage |-> "none",
   passphrase2 |-> NullStr, env2 |-> EnvOk, decrypted |-> NoRet]

\* "!" is no base64 text; "AA==" is the salt <<0>>
Damaged(blob, damage) ==
  IF damage = "ciphertext"
    THEN [blob EXCEPT !.encrypted = cipherToBase64([corrupt |-> TRUE])]
  ELSE IF damage = "salt" THEN [blob EXCEPT !.salt = <<33>>]
  ELSE IF damage = "saltBytes" THEN [blob EXCEPT !.salt = <<65, 65, 61, 61>>]
  ELSE IF damage = "iv" THEN [blob EXCEPT !.iv = <<33>>]
  ELSE StorageRemove(blob, {"encrypted"})

CipherEncrypt ==
  /\ cipher.pc = "start"
  /\ \E salt \in ByteArrays(SaltLen, NonceBytes), iv \in ByteArrays(IvLen, NonceBytes), env \in Envs :
       LET r == encryptCredentials(cipher.credentials, cipher.passphrase,
                                   salt, iv, env)
       IN cipher' = [cipher EXCEPT !.pc = "encrypted",
                                   !.encrypted = r.res,
                                   !.prims = r.prims,
                                   !.blob = IF r.res.ok THEN r.res.v ELSE Null]
  /\ UNCHANGED << storage, memVars, calls, migrationsPersisted, otherVars >>

CipherDamage ==
  /\ cipher.pc = "encrypted"
  /\ cipher.encrypted.ok
  /\ \E damage \in {"ciphertext", "salt", "saltBytes", "iv", "noEncrypted"} :
       cipher' = [cipher EXCEPT !.pc = "damaged",
                                !.damage = damage,
                                !.blob = Damaged(cipher.blob, damage)]
  /\ UNCHANGED << storage, memVars, calls, migrationsPersisted, otherVars >>

CipherDecrypt ==
  /\ \/ cipher.pc = "encrypted" /\ cipher.encrypted.ok
     \/ cipher.pc = "damaged"
  /\ \E passphrase \in Passphrases, env \in Envs :
       cipher' = [cipher EXCEPT !.pc = "decrypted",
                                !.passphrase2 = passphrase,
                                !.env2 = env,
                                !.decrypted =
                                  decryptCredentials(cipher.blob, passphrase, env)]
  /\ UNCHANGED << storage, memVars, calls, migrationsPersisted, otherVars >>

\* ------------------------------------------------------------------------
\* Specifications
\* ------------------------------------------------------------------------

EmptyStorage == [k \in {} |-> TRUE]

\* what a migrated installation holds when the service worker starts:
\* nothing else, or the credentials saved earlier
MigratedStorages ==
  { [credentialsMigrated |-> TRUE, userId |-> Uuid] } \cup
  { [credentialsMigrated |-> TRUE, userId |-> Uuid,
     encryptedCredentials |->
       encryptCredentials([supabaseUrl |-> UrlA, supabaseKey |-> KeyA],
                          p, salt, iv, EnvOk).res.v,
     installationKey |-> encryptInstallationKey(p)] :
       p \in Passphrases, salt \in ByteArrays(SaltLen, NonceBytes), iv \in ByteArrays(IvLen, NonceBytes) }

InitMemory ==
  /\ encryptedCredentials = Null
  /\ sessionPassphrase = NullStr
  /\ userId = NullStr
  /\ passphraseTimeout = 0
  /\ timers = {}
  /\ calls = EmptyBag
  /\ sinceReset = 0
  /\ cachedByStale = FALSE
  /\ migrationsPersisted = 0

\* the extension, from its first load on a legacy installation, with what
\* such an installation can hold
Init ==
  /\ storage \in { EmptyStorage,
                   [supabaseUrl |-> UrlA],
                   [supabaseKey |-> KeyA],
                   [supabaseUrl |-> UrlA, supabaseKey |-> KeyA] }
  /\ InitMemory
  /\ cipher = CipherOff
  /\ InitOther

Next ==
  \/ LoadStart
  \/ \E a \in Activations : LGet(a)
  \/ \E a \in Activations : LSetUser(a)
  \/ \E a \in Activations : MGet(a)
  \/ \E a \in Activations : MEncrypt(a)
  \/ \E a \in Activations : MSet(a)
  \/ \E a \in Activations : MRemove(a)
  \/ \E a \in Activations : MSetNoop(a)
  \/ GetStart
  \/ \E a \in Activations : GGetKey(a)
  \/ \E a \in Activations : GDecrypt(a)
  \/ \E config \in ConfigInputs : UpdStart(config)
  \/ \E a \in Activations : UEncrypt(a)
  \/ \E a \in Activations : USet(a)
  \/ \E a \in Activations : USetOther(a)
  \/ TimerFire
  \/ IdleEvent
  \/ Tick
  \/ \E a \in Activations : Respond(a)

Spec == Init /\ [][Next]_vars

\* the session key manager of a migrated installation, once the service
\* worker has started and loadConfig has loaded the configuration: it serves
\* getCredentials and updateConfig
InitKey ==
  /\ storage \in MigratedStorages
  /\ encryptedCredentials = GetBlob(storage, "encryptedCredentials")
  /\ sessionPassphrase = NullStr
  /\ userId = storage.userId
  /\ passphraseTimeout = 0
  /\ timers = {}
  /\ calls = EmptyBag
  /\ sinceReset = 0
  /\ cachedByStale = FALSE
  /\ migrationsPersisted = 0
  /\ cipher = CipherOff
  /\ InitOther

NextKey ==
  \/ GetStart
  \/ \E a \in Activations : GGetKey(a)
  \/ \E a \in Activations : GDecrypt(a)
  \/ \E config \in ConfigInputs : UpdStart(config)
  \/ \E a \in Activations : UEncrypt(a)
  \/ \E a \in Activations : USet(a)
  \/ \E a \in Activations : USetOther(a)
  \/ TimerFire
  \/ IdleEvent
  \/ Tick
  \/ \E a \in Activations : Respond(a)

SpecKey == InitKey /\ [][NextKey]_vars

\* the first loads of a legacy installation and the updates of its
\* configuration
NextInstall ==
  \/ LoadStart
  \/ \E a \in Activations : LGet(a)
  \/ \E a \in Activations : LSetUser(a)
  \/ \E a \in Activations : MGet(a)
  \/ \E a \in Activations : MEncrypt(a)
  \/ \E a \in Activations : MSet(a)
  \/ \E a \in Activations : MRemove(a)
  \/ \E a \in Activations : MSetNoop(a)
  \/ \E config \in ConfigInputs : UpdStart(config)
  \/ \E a \in Activations : UEncrypt(a)
  \/ \E a \in Activations : USet(a)
  \/ \E a \in Activations : USetOther(a)
  \/ \E a \in Activations : Respond(a)

SpecInstall == Init /\ [][NextInstall]_vars

\* the two migrations to encrypted storage: loadConfig on a legacy
\* installation, and a client of SecureStorage that calls migrateToEncrypted
NextMigration ==
  \/ LoadStart
  \/ \E a \in Activations : LGet(a)
  \/ \E a \in Activations : LSetUser(a)
  \/ \E a \in Activations : MGet(a)
  \/ \E a \in Activations : MEncrypt(a)
  \/ \E a \in Activations : MSet(a)
  \/ \E a \in Activations : MRemove(a)
  \/ \E a \in Activations : MSetNoop(a)
  \/ \E plaintextCreds \in CredentialInputs, passphrase \in Passphrases :
       XStart(plaintextCreds, passphrase)
  \/ \E a \in Activations : XEncrypt(a)
  \/ \E a \in Activations : XSet(a)
  \/ \E a \in Activations : XRemove(a)
  \/ \E a \in Activations : Respond(a)

SpecMigration == Init /\ [][NextMigration]_vars

\* what loadConfig can have loaded: the storage of a migrated installation,
\* the blob migrateToEncrypted leaves (it stores no installation key), and a
\* blob that was damaged in storage
InitGet ==
  /\ storage \in
       MigratedStorages \cup
       { StorageRemove(s, {"installationKey"}) :
           s \in { t \in MigratedStorages : Has(t, "installationKey") } } \cup
       { [s EXCEPT !.encryptedCredentials =
                     Damaged(s.encryptedCredentials, damage)] :
           s \in { t \in MigratedStorages : Has(t, "encryptedCredentials") },
           damage \in {"ciphertext", "salt"} }
  /\ encryptedCredentials = GetBlob(storage, "encryptedCredentials")
  /\ sessionPassphrase = NullStr
  /\ userId = storage.userId
  /\ passphraseTimeout = 0
  /\ timers = {}
  /\ calls = EmptyBag
  /\ sinceReset = 0
  /\ cachedByStale = FALSE
  /\ migrationsPersisted = 0
  /\ cipher = CipherOff
  /\ InitOther

NextGetCredentials ==
  \/ GetStart
  \/ \E a \in Activations : GGetKey(a)
  \/ \E a \in Activations : GDecrypt(a)
  \/ TimerFire
  \/ IdleEvent
  \/ Tick
  \/ \E a \in Activations : Respond(a)

\* getCredentials on whatever loadConfig has loaded
SpecGet == InitGet /\ [][NextGetCredentials]_vars

InitCipher ==
  /\ storage = EmptyStorage
  /\ InitMemory
  /\ InitOther
  /\ \E credentials \in CredentialInputs, passphrase \in Passphrases :
       cipher = [CipherOff EXCEPT !.pc = "start",
                                  !.credentials = credentials,
                                  !.passphrase = passphrase]

NextCipher ==
  \/ CipherEncrypt
  \/ CipherDamage
  \/ CipherDecrypt

\* the cipher on its own
SpecCipher == InitCipher /\ [][NextCipher]_vars

\* ------------------------------------------------------------------------
\* Properties of the session key manager (SpecKey)
\* ------------------------------------------------------------------------

\* the timeout passphraseTimeout refers to is pending with this much left
HeldTimeout(ts, id, left) == [id |-> id, left |-> left] \in ts

\* C1: sliding expiration.  While a passphrase is cached, the timeout of the
\* last reset is pending and the passphrase has been held for no longer than
\* the 5 minutes since then; a getCredentials that finds it cached decrypts
\* with it without reading installationKey and restarts the full timeout; a
\* timeout that runs while the passphrase is cached is the one of the last
\* reset, 5 minutes after it; a getCredentials that finds no passphrase
\* goes to storage for installationKey and decrypts with what it recovers.
C1_SlidingExpiration ==
  /\ [](Truthy(sessionPassphrase) =>
          /\ sinceReset <= TimeoutTicks
          /\ HeldTimeout(timers, passphraseTimeout, TimeoutTicks - sinceReset))
  /\ [][ /\ (GetStart /\ encryptedCredentials # Null
                      /\ Truthy(sessionPassphrase)) =>
              /\ \E c \in BagToSet(calls') :
                   /\ calls' = Started(c)
                   /\ c.pc = "G_decrypt"
                   /\ c.passphrase = sessionPassphrase
                   /\ c.encrypted = encryptedCredentials
                   /\ ~c.readKey
              /\ sessionPassphrase' = sessionPassphrase
              /\ sinceReset' = 0
              /\ HeldTimeout(timers', passphraseTimeout', TimeoutTicks)
         /\ (TimerFire /\ Truthy(sessionPassphrase)) =>
              /\ sinceReset = TimeoutTicks
              /\ ~Truthy(sessionPassphrase')
         /\ (GetStart /\ encryptedCredentials # Null
                      /\ ~Truthy(sessionPassphrase)) =>
              \E c \in BagToSet(calls') :
                /\ calls' = Started(c)
                /\ c.pc = "G_getKey"
         /\ \A a \in Activations :
              (GGetKey(a) /\ Truthy(sessionPassphrase')) =>
                /\ Has(storage, "installationKey")
                /\ Ok(sessionPassphrase') =
                     decryptInstallationKey(storage.installationKey)
                /\ \E c \in BagToSet(calls') :
                     /\ calls' = Moved(a, c)
                     /\ c.readKey
                     /\ c.passphrase = sessionPassphrase'
       ]_vars

\* one getCredentials has returned the credentials; another found the
\* passphrase cached, has restarted the timeout and is decrypting with it
\* without having read storage
C1_Witness ==
  /\ Truthy(sessionPassphrase)
  /\ sinceReset = 0
  /\ HeldTimeout(timers, passphraseTimeout, TimeoutTicks)
  /\ \E c \in Activations :
       /\ c.op = "getCredentials" /\ c.pc = "G_decrypt"
       /\ c.cachedAtStart /\ ~c.readKey
       /\ c.passphrase = sessionPassphrase
  /\ \E c \in Activations :
       /\ c.op = "getCredentials" /\ c.pc = "done"
       /\ c.ret.ok /\ c.ret.v # Null

\* C2: after the idle API reports 'idle' or 'locked' the passphrase stays
\* uncached until a call issued after the event caches it: a cached
\* passphrase was never cached by an activation that was already in flight
\* when the last idle event came.
C2_IdleClearsUntilLaterCall == Truthy(sessionPassphrase) => ~cachedByStale

\* ------------------------------------------------------------------------
\* Properties of the first loads (SpecInstall)
\* ------------------------------------------------------------------------

PlaintextFields == {"supabaseUrl", "supabaseKey"}

\* C3: one-time migration.  The encrypt-and-persist branch of
\* migrateFromPlaintext runs at most once, and once credentialsMigrated is
\* true in storage no loadConfig enters migrateFromPlaintext.
C3_MigratesOnce ==
  /\ [](migrationsPersisted <= 1)
  /\ [][ \A a \in Activations :
           (LGet(a) /\ GetFlag(storage, "credentialsMigrated")) =>
             \A c \in BagToSet(calls') : calls' = Moved(a, c) => c.pc # "M_get"
       ]_vars

\* C5: once a loadConfig has finished with credentialsMigrated = true in
\* storage, storage holds neither supabaseUrl nor supabaseKey.
C5_NoPlaintextAfterLoad ==
  ((\E c \in Activations : c.op = "loadConfig" /\ c.pc = "done")
     /\ GetFlag(storage, "credentialsMigrated"))
  => \A f \in PlaintextFields : ~Has(storage, f)

\* ------------------------------------------------------------------------
\* Properties of the two migrations (SpecMigration)
\* ------------------------------------------------------------------------

\* the credentials are in storage, in plaintext or encrypted
CredentialsHeld(s) ==
  \/ \A f \in PlaintextFields : Has(s, f)
  \/ Has(s, "encryptedCredentials")

\* C4: migration ordering, in migrateFromPlaintext and in migrateToEncrypted.
\* A plaintext field leaves storage only when storage already holds the
\* encrypted blob and credentialsMigrated = true; a migration that ends at
\* its encryption or at its write leaves storage as it was; storage that
\* holds the credentials in one form holds them in some form afterwards.
C4_MigrationOrdering ==
  [][ /\ (\E f \in PlaintextFields : Has(storage, f) /\ ~Has(storage', f)) =>
           /\ Has(storage, "encryptedCredentials")
           /\ GetFlag(storage, "credentialsMigrated")
      /\ \A a \in Activations :
           (/\ a.pc \in {"M_encrypt", "M_set", "X_encrypt", "X_set"}
            /\ \E c \in BagToSet(calls') : c.pc = "done" /\ calls' = Moved(a, c))
           => storage' = storage
      /\ CredentialsHeld(storage) => CredentialsHeld(storage')
    ]_vars

\* both migrations have run to their end: the plaintext is gone and the blob
\* and the installation key of migrateFromPlaintext are stored
C4_Witness ==
  /\ \A f \in PlaintextFields : ~Has(storage, f)
  /\ Has(storage, "encryptedCredentials")
  /\ Has(storage, "installationKey")
  /\ GetFlag(storage, "credentialsMigrated")
  /\ migrationsPersisted = 1
  /\ \E c \in Activations :
       /\ c.op = "migrateToEncrypted" /\ c.pc = "done"
       /\ c.ret = Ok([value |-> TRUE])

\* C6: migrateToEncrypted with no plaintext credentials to migrate returns
\* false, raises no error and neither writes to storage nor removes from it.
C6_NothingToMigrateIsNoop ==
  [][ \A passphrase \in Passphrases :
        XStart(Undefined, passphrase) =>
          /\ storage' = storage
          /\ \E c \in BagToSet(calls') :
               /\ calls' = Started(c)
               /\ c.pc = "done"
               /\ c.ret = Ok([value |-> FALSE])
    ]_vars

\* ------------------------------------------------------------------------
\* Properties of the cipher (SpecCipher)
\* ------------------------------------------------------------------------

\* the required string field a structure lacks, the first one validation
\* would name
MissingField(credentials) ==
  IF ~HasString(credentials, "supabaseUrl") THEN "supabaseUrl"
  ELSE IF ~HasString(credentials, "supabaseKey") THEN "supabaseKey"
  ELSE "none"

\* C7: encryptCredentials on a structure without a required string field
\* fails with the validation error that names the field, before any random
\* generation, key derivation or encryption.
C7_ValidatesBeforePrimitives ==
  (/\ cipher.pc = "encrypted"
   /\ cipher.credentials # Undefined
   /\ MissingField(cipher.credentials) # "none")
  => /\ cipher.encrypted =
          Throw(IF MissingField(cipher.credentials) = "supabaseUrl"
                THEN "Missing required field: supabaseUrl"
                ELSE "Missing required field: supabaseKey")
     /\ cipher.prims = << >>

C9_WrongPassphraseFails ==
  (/\ cipher.pc = "decrypted"
   /\ cipher.damage = "none"
   /\ cipher.passphrase2 # cipher.passphrase)
  => cipher.decrypted = Throw(DecryptError)

C9_Witness ==
  /\ cipher.pc = "decrypted"
  /\ cipher.damage = "none"
  /\ validateCredentials(cipher.credentials)
  /\ cipher.passphrase2 # cipher.passphrase
  /\ cipher.env2.kdf
  /\ ~cipher.decrypted.ok

\* C10: indistinguishable failure.  Whatever makes decryptCredentials fail,
\* the caller sees the one decryption error, a fixed text.
C10_OneDecryptionError ==
  (cipher.pc = "decrypted" /\ ~cipher.decrypted.ok)
  => cipher.decrypted = Throw(DecryptError)

\* a failure inside the cipher (a salt that decodes to other bytes) under
\* the right passphrase
C10_Witness ==
  /\ cipher.pc = "decrypted"
  /\ cipher.damage = "saltBytes"
  /\ cipher.passphrase2 = cipher.passphrase
  /\ cipher.env2.kdf
  /\ cipher.decrypted = Throw(DecryptError)

\* ------------------------------------------------------------------------
\* Properties of getCredentials and updateConfig (SpecGet, SpecKey)
\* ------------------------------------------------------------------------

\* the activation a settles in this step with the result r
Settles(a, r) == calls' = Moved(a, Returned(a, r))

\* C11: getCredentials never raises.  With no blob loaded it returns null at
\* once and reads and changes nothing; when installationKey is missing or
\* unreadable, or decryption fails, it returns null and the cached
\* passphrase is cleared; otherwise it returns the decrypted credentials.
C11_GetCredentialsNeverRaises ==
  /\ [](\A c \in Activations :
          (c.op = "getCredentials" /\ c.pc = "done") => c.ret.ok)
  /\ [][ /\ (GetStart /\ encryptedCredentials = Null) =>
              /\ \E c \in BagToSet(calls') :
                   calls' = Started(c) /\ c.pc = "done" /\ c.ret = Ok(Null)
              /\ UNCHANGED << storage, sessionPassphrase, passphraseTimeout,
                              timers >>
         /\ \A a \in Activations :
              (GGetKey(a) /\ (~Truthy(GetString(storage, "installationKey"))
                              \/ ~decryptInstallationKey(storage.installationKey).ok)) =>
                /\ Settles(a, Ok(Null))
                /\ sessionPassphrase' = NullStr
         /\ \A a \in Activations :
              GDecrypt(a) =>
                LET credentials == decryptCredentials(a.encrypted, a.passphrase, EnvOk)
                IN IF credentials.ok
                   THEN /\ Settles(a, Ok(credentials.v))
                        /\ sessionPassphrase' = sessionPassphrase
                   ELSE /\ Settles(a, Ok(Null))
                        /\ sessionPassphrase' = NullStr
       ]_vars

\* decryption of a damaged blob has failed: getCredentials has returned null
\* and the passphrase it had cached is cleared, its timeout still pending
C11_Witness ==
  /\ encryptedCredentials # Null
  /\ Has(storage, "installationKey")
  /\ ~decryptCredentials(encryptedCredentials,
        decryptInstallationKey(storage.installationKey).v, EnvOk).ok
  /\ sessionPassphrase = NullStr
  /\ timers # {}
  /\ \E c \in Activations :
       c.op = "getCredentials" /\ c.pc = "done" /\ c.ret = Ok(Null)

\* the credentials a blob holds under a passphrase
Opened(blob, passphrase) == decryptCredentials(blob, passphrase, EnvOk)

\* the memory after a credential update by the activation a: the new blob,
\* the new passphrase cached, one timeout armed for the full 5 minutes, and
\* so a getCredentials that decrypts the saved credentials from the cache
KeyCachedBy(a, blob, passphrase, ts, id) ==
  /\ blob = a.encrypted
  /\ passphrase = a.passphrase
  /\ Truthy(passphrase)
  /\ ts = { [id |-> id, left |-> TimeoutTicks] }
  /\ Opened(blob, passphrase) =
       Ok([supabaseUrl |-> a.arg.supabaseUrl, supabaseKey |-> a.arg.supabaseKey])

\* C12 as stated: when an updateConfig with valid credentials returns
\* success, the memory holds the new blob, the new passphrase is cached, one
\* timeout is armed and getCredentials would return the saved credentials
\* from the cache.
C12_KeyCachedOnReturn ==
  [][ \A a \in Activations :
        (/\ a.op = "updateConfig" /\ a.encrypted # Null
         /\ Settles(a, Success))
        => KeyCachedBy(a, encryptedCredentials', sessionPassphrase', timers',
                       passphraseTimeout')
    ]_vars

\* C12 amended: when the write of the encrypted credentials of an
\* updateConfig succeeds (its return, for a configuration with no other
\* items), the memory holds the new blob, the new passphrase is cached, one
\* timeout is armed, and a getCredentials started then takes the cached
\* path and returns the saved credentials.
C12_KeyCachedOnWrite ==
  [][ /\ \A a \in Activations :
           (USet(a) /\ calls' = Moved(a, AfterCredentials(a)))
           => /\ KeyCachedBy(a, encryptedCredentials', sessionPassphrase',
                             timers', passphraseTimeout')
              /\ storage'.encryptedCredentials = a.encrypted
              /\ decryptInstallationKey(storage'.installationKey) = Ok(a.passphrase)
      /\ \A a \in Activations :
           (a.op = "updateConfig" /\ a.pc = "U_set"
            /\ DOMAIN OtherConfig(a.arg) = {} /\ Settles(a, Success))
           => KeyCachedBy(a, encryptedCredentials', sessionPassphrase',
                          timers', passphraseTimeout')
    ]_vars

\* an updateConfig has just saved new credentials and returned, and a
\* getCredentials started after it is decrypting them from the cache
C12_Witness ==
  /\ \E c \in Activations :
       c.op = "updateConfig" /\ c.pc = "done" /\ c.ret = Success
  /\ \E c \in Activations :
       /\ c.op = "getCredentials" /\ c.pc = "G_decrypt"
       /\ c.cachedAtStart /\ ~c.readKey
       /\ c.encrypted = encryptedCredentials
       /\ c.passphrase = sessionPassphrase
       /\ Opened(c.encrypted, c.passphrase)
            = Ok([supabaseUrl |-> UrlB, supabaseKey |-> KeyB])
  /\ Cardinality(timers) = 1

\* C13: an updateConfig whose supabaseUrl/supabaseKey pair fails
\* validateCredentials returns { success: false } in its first step, before
\* a passphrase is generated or anything encrypted, and leaves storage, the
\* blob in memory, the cached passphrase and the timeout as they were.
C13_InvalidRejectedFirst ==
  [][ \A config \in ConfigInputs :
        (/\ UpdStart(config)
         /\ HasString(config, "supabaseUrl") /\ HasString(config, "supabaseKey")
         /\ ~validateCredentials(config))
        => /\ \E c \in BagToSet(calls') :
                /\ calls' = Started(c)
                /\ c.pc = "done"
                /\ c.ret = Failure("Invalid credential format")
           /\ UNCHANGED << storage, encryptedCredentials, sessionPassphrase,
                           passphraseTimeout, timers >>
    ]_vars

\* an invalid pair was rejected while credentials are stored and cached
C13_Witness ==
  /\ \E c \in Activations :
       /\ c.op = "updateConfig" /\ c.pc = "done"
       /\ c.ret = Failure("Invalid credential format")
  /\ Has(storage, "encryptedCredentials")
  /\ Truthy(sessionPassphrase)
  /\ \A c \in Activations : c.pc = "done"

\* ------------------------------------------------------------------------
\* lib/parser.js: InputSanitizer.logSecurityEvent
\* ------------------------------------------------------------------------

\* "Keep only last 100 events"
RingCapacity == 100

\* { type, timestamp, details, blocked: true }
SecurityEvent(type, time) ==
  [type |-> type, timestamp |-> time, details |-> "details", blocked |-> TRUE]

\* result.securityEvents || []
GetList(s, k) == IF Has(s, k) THEN s[k] ELSE << >>

\* new Date(): later than the time of every stored event
Now == IF logged = << >> THEN RingCapacity
       ELSE IF logged[Len(logged)].timestamp < RingCapacity THEN RingCapacity
       ELSE logged[Len(logged)].timestamp

\* logSecurityEvent(type, details) is called: the event is built and
\* storage.get(['securityEvents'], callback) issued
LogStart(type) ==
  /\ CanStart
  /\ Now < RingCapacity + MaxEvents
  /\ LET event == SecurityEvent(type, Now + 1)
     IN /\ logged' = Append(logged, event)
        /\ calls' = Started([IdleCall EXCEPT !.op = "logSecurityEvent",
                                             !.pc = "E_get",
                                             !.arg = [event |-> event]])
  /\ UNCHANGED << storage, memVars, migrationsPersisted, cipher, sanit, manager, remoteVars >>

\* the callback of storage.get runs: push, shift when over 100, and
\* storage.set({ securityEvents: events }) is issued
EGet(a) ==
  /\ a.pc = "E_get"
  /\ LET pushed == Append(GetList(storage, "securityEvents"), a.arg.event)
         events == IF Len(pushed) > RingCapacity THEN Tail(pushed) ELSE pushed
     IN calls' = Moved(a, [a EXCEPT !.pc = "E_set", !.arg = [events |-> events]])
  /\ UNCHANGED << storage, memVars, migrationsPersisted, cipher, otherVars >>

\* the storage.set of the callback takes effect
ESet(a) ==
  /\ a.pc = "E_set"
  /\ storage' = StorageSet(storage, [securityEvents |-> a.arg.events])
  /\ calls' = calls (-) SetToBag({a})
  /\ UNCHANGED << memVars, migrationsPersisted, cipher, otherVars >>

\* the events an installation has stored before: none, or a ring that is
\* one short of full, or full
InitEvents ==
  /\ LET StoredEvents(n) == [i \in 1..n |-> SecurityEvent("XSS_BLOCKED", i)]
     IN storage \in { EmptyStorage,
                      [securityEvents |-> StoredEvents(RingCapacity - 1)],
                      [securityEvents |-> StoredEvents(RingCapacity)] }
  /\ InitMemory
  /\ cipher = CipherOff
  /\ logged = GetList(storage, "securityEvents")
  /\ sanit = SanitOff
  /\ manager = ManagerOff
  /\ InitRemote

NextEvents ==
  \/ \E type \in {"XSS_BLOCKED", "MESSAGE_ERROR"} : LogStart(type)
  \/ \E a \in Activations : EGet(a)
  \/ \E a \in Activations : ESet(a)

\* the security log on its own
SpecEvents == InitEvents /\ [][NextEvents]_vars

\* C14: security-event ring.  The stored list never has more than 100
\* entries, and once no logSecurityEvent is in flight it is the most recent
\* min(n, 100) of the n events logged, in logging order.
C14_EventRing ==
  LET events == GetList(storage, "securityEvents")
      kept == IF Len(logged) < RingCapacity THEN Len(logged) ELSE RingCapacity
  IN /\ Len(events) <= RingCapacity
     /\ (\A c \in Activations : c.op # "logSecurityEvent")
          => events = SubSeq(logged, (Len(logged) - kept) + 1, Len(logged))

\* ------------------------------------------------------------------------
\* lib/parser.js: InputSanitizer (with a document, as in the popup, the
\* content script and the tests; only the strict profile, the one that
\* needs no HTML parser)
\* ------------------------------------------------------------------------

\* a JavaScript value handed to the sanitizer: a string, a number, an
\* object, an array, undefined or null
Str(s) == [str |-> s]
Obj(r) == [obj |-> r]
IsStr(v) == "str" \in DOMAIN v

\* !v
Falsy(v) ==
  \/ v \in {Undefined, Null}
  \/ IsStr(v) /\ v.str = << >>
  \/ "num" \in DOMAIN v /\ v.num = 0

\* message.field
Field(v, k) ==
  IF "obj" \in DOMAIN v /\ k \in DOMAIN v.obj THEN v.obj[k] ELSE Undefined

RECURSIVE Digits(_)
\* the decimal digits of a natural number
Digits(n) == IF n < 10 THEN << 48 + n >> ELSE Digits(n \div 10) \o << 48 + (n % 10) >>

\* String(input)
StringOf(v) ==
  IF IsStr(v) THEN v.str
  ELSE IF "num" \in DOMAIN v THEN Digits(v.num)
  ELSE IF v = Undefined THEN <<117, 110, 100, 101, 102, 105, 110, 101, 100>>
  ELSE IF v = Null THEN <<110, 117, 108, 108>>
  ELSE <<91, 111, 98, 106, 101, 99, 116, 32, 79, 98, 106, 101, 99, 116, 93>>

\* \w
IsWord(c) == IsAlnum(c) \/ c = 95
\* \s
IsSpace(c) == c \in {9, 10, 11, 12, 13, 32, 160}

\* the lower-case literal lit matches s at i, case ignored (the i flag)
LitAt(lit, s, i) ==
  LET Lower(c) == IF c \in 65..90 THEN c + 32 ELSE c
  IN /\ (i + Len(lit)) - 1 <= Len(s)
     /\ \A k \in 1..Len(lit) : Lower(s[(i + k) - 1]) = lit[k]

Least(S) == CHOOSE x \in S : \A y \in S : x <= y

\* this.dangerousPatterns
dangerousPatterns ==
  << [kind |-> "element", tag |-> <<115, 99, 114, 105, 112, 116>>],
     [kind |-> "literal", text |-> <<106, 97, 118, 97, 115, 99, 114, 105, 112, 116, 58>>],
     [kind |-> "handler"],
     [kind |-> "element", tag |-> <<105, 102, 114, 97, 109, 101>>],
     [kind |-> "element", tag |-> <<111, 98, 106, 101, 99, 116>>],
     [kind |-> "embed"],
     [kind |-> "element", tag |-> <<97, 112, 112, 108, 101, 116>>],
     [kind |-> "literal", text |-> <<100, 97, 116, 97, 58, 116, 101, 120, 116, 47, 104, 116, 109, 108>>],
     [kind |-> "literal", text |-> <<118, 98, 115, 99, 114, 105, 112, 116, 58>>] >>

\* /on\w+\s*=/i at i
HandlerEnd(s, i) ==
  LET j == i + 2
      afterWord == Least({ k \in j..(Len(s) + 1) : k > Len(s) \/ ~IsWord(s[k]) })
      afterSpace == Least({ k \in afterWord..(Len(s) + 1) : k > Len(s) \/ ~IsSpace(s[k]) })
  IN IF LitAt(<<111, 110>>, s, i) /\ afterWord > j /\ afterSpace <= Len(s) /\ s[afterSpace] = 61
       THEN afterSpace
       ELSE 0

\* the pattern matches s at i: the index of the last character matched, or 0.
\* An element pattern /<tag\b[^<]*(?:(?!<\/tag>)<[^<]*)*<\/tag>/i matches
\* "<tag", a word boundary, and everything up to the first "</tag>"; the
\* embed pattern /<embed\b[^>]*>/i matches up to the first ">"
MatchEnd(pattern, s, i) ==
  LET open == << 60 >> \o (IF pattern.kind = "element" THEN pattern.tag
                           ELSE <<101, 109, 98, 101, 100>>)
      close == IF pattern.kind = "element"
               THEN << 60, 47 >> \o pattern.tag \o << 62 >>
               ELSE << 62 >>
      j == i + Len(open)
      closes == { k \in j..Len(s) : LitAt(close, s, k) }
  IN IF pattern.kind \in {"element", "embed"}
       THEN IF LitAt(open, s, i) /\ j <= Len(s) /\ ~IsWord(s[j]) /\ closes # {}
              THEN (Least(closes) + Len(close)) - 1
              ELSE 0
     ELSE IF pattern.kind = "handler" THEN HandlerEnd(s, i)
     ELSE IF LitAt(pattern.text, s, i) THEN (i + Len(pattern.text)) - 1
     ELSE 0

RECURSIVE Replace(_, _, _)
\* s.replace(pattern, '') from index i on: one pass, left to right, over
\* the matches that do not overlap
Replace(pattern, s, i) ==
  IF i > Len(s) THEN << >>
  ELSE IF MatchEnd(pattern, s, i) > 0
    THEN Replace(pattern, s, MatchEnd(pattern, s, i) + 1)
  ELSE << s[i] >> \o Replace(pattern, s, i + 1)

\* removeDangerousPatterns(text); RemoveFrom is its loop from the n-th
\* pattern on
removeDangerousPatterns(text) ==
  LET RECURSIVE RemoveFrom(_, _)
      RemoveFrom(n, cleaned) ==
        IF n > Len(dangerousPatterns) THEN cleaned
        ELSE RemoveFrom(n + 1, Replace(dangerousPatterns[n], cleaned, 1))
  IN RemoveFrom(1, text)

RECURSIVE escapeHtml(_)
\* div.textContent = text; return div.innerHTML
escapeHtml(text) ==
  IF text = << >> THEN << >>
  ELSE (IF Head(text) = 38 THEN <<38, 97, 109, 112, 59>>
        ELSE IF Head(text) = 60 THEN <<38, 108, 116, 59>>
        ELSE IF Head(text) = 62 THEN <<38, 103, 116, 59>>
        ELSE IF Head(text) = 160 THEN <<38, 110, 98, 115, 112, 59>>
        ELSE << Head(text) >>) \o escapeHtml(Tail(text))

\* sanitize(input, profile)
sanitize(input, profile) ==
  IF Falsy(input) THEN << >>
  ELSE escapeHtml(removeDangerousPatterns(StringOf(input)))

\* url.replace(/[\x00-\x1F\x7F]/g, '')
StripControls(s) == SelectSeq(s, LAMBDA c : ~(c \in 0..31 \/ c = 127))

\* s.trim()
Trim(s) ==
  LET kept == { i \in 1..Len(s) : ~IsSpace(s[i]) }
      last == CHOOSE x \in kept : \A y \in kept : y <= x
  IN IF kept = {} THEN << >> ELSE SubSeq(s, Least(kept), last)

\* /^(javascript|data|vbscript):/i
DangerousSchemes == { <<106, 97, 118, 97, 115, 99, 114, 105, 112, 116, 58>>, <<100, 97, 116, 97, 58>>, <<118, 98, 115, 99, 114, 105, 112, 116, 58>> }

\* sanitizeUrl(url); url.replace is no function when url is no string
sanitizeUrl(url) ==
  IF Falsy(url) THEN Ok(<< >>)
  ELSE IF ~IsStr(url) THEN Throw("TypeError: url.replace is not a function")
  ELSE LET cleaned == Trim(StripControls(url.str))
       IN IF \E scheme \in DangerousSchemes : LitAt(scheme, cleaned, 1)
            THEN Ok(<< >>)
            ELSE Ok(cleaned)

\* '... [truncated]'
TruncatedMarker == <<46, 46, 46, 32, 91, 116, 114, 117, 110, 99, 97, 116, 101, 100, 93>>

\* sanitizeForStorage(content), cutting also what is exactly maxLength long
sanitizeForStorageAtLimit(content) ==
  IF Falsy(content) THEN << >>
  ELSE LET sanitized == sanitize(content, "strict")
       IN IF Len(sanitized) >= maxLength
            THEN SubSeq(sanitized, 1, maxLength) \o TruncatedMarker
            ELSE sanitized

\* sanitizeForStorage(content)
sanitizeForStorage(content) ==
  IF Falsy(content) THEN << >>
  ELSE LET sanitized == sanitize(content, "strict")
       IN IF Len(sanitized) > maxLength
            THEN SubSeq(sanitized, 1, maxLength) \o TruncatedMarker
            ELSE sanitized

\* new Date().toISOString(): "2026-01-01T00:00:00.000Z"
IsoNow == <<50, 48, 50, 54, 45, 48, 49, 45, 48, 49, 84, 48, 48, 58, 48, 48, 58, 48, 48, 46, 48, 48, 48, 90>>

\* sanitizeMessage(message).  IsoDate is new Date(timestamp).toISOString()
\* for the timestamps of the model: a year of four digits is a date, and so
\* is what toISOString made of one; any other text is an Invalid Date, whose
\* toISOString throws (IsoMidnight is "-01-01T00:00:00.000Z")
sanitizeMessage(message) ==
  LET IsoMidnight == <<45, 48, 49, 45, 48, 49, 84, 48, 48, 58, 48, 48, 58, 48, 48, 46, 48, 48, 48, 90>>
      IsYear(s) == Len(s) = Len(<<50, 48, 50, 54>>) /\ \A i \in 1..Len(s) : s[i] \in 48..57
      IsoDate(timestamp) ==
        IF IsStr(timestamp) /\ IsYear(timestamp.str)
          THEN Ok(timestamp.str \o IsoMidnight)
        ELSE IF /\ IsStr(timestamp)
                /\ Len(timestamp.str) = Len(IsoNow)
                /\ IsYear(SubSeq(timestamp.str, 1, Len(IsoNow) - Len(IsoMidnight)))
                /\ SubSeq(timestamp.str, (Len(IsoNow) - Len(IsoMidnight)) + 1,
                          Len(timestamp.str)) = IsoMidnight
          THEN Ok(timestamp.str)
        ELSE Throw("RangeError: Invalid time value")
  IN
  IF Falsy(message) THEN Ok([role |-> << >>, content |-> << >>])
  ELSE LET timestamp == IF Falsy(Field(message, "timestamp")) THEN Ok(IsoNow)
                        ELSE IsoDate(Field(message, "timestamp"))
           url == IF Falsy(Field(message, "url")) THEN Ok(<< >>)
                  ELSE sanitizeUrl(Field(message, "url"))
       IN IF ~timestamp.ok THEN timestamp
          ELSE IF ~url.ok THEN url
          ELSE Ok([role |-> sanitize(Field(message, "role"), "strict"),
                   content |-> sanitizeForStorage(Field(message, "content")),
                   timestamp |-> timestamp.v,
                   url |-> url.v,
                   site |-> sanitize(Field(message, "site"), "strict")])

\* sanitizeBatch(messages)
sanitizeBatch(messages) ==
  IF "arr" \notin DOMAIN messages THEN Ok(<< >>)
  ELSE LET results == [i \in 1..Len(messages.arr) |-> sanitizeMessage(messages.arr[i])]
           thrown == { i \in 1..Len(messages.arr) : ~results[i].ok }
       IN IF thrown = {} THEN Ok([i \in 1..Len(messages.arr) |-> results[i].v])
          ELSE results[Least(thrown)]

\* ------------------------------------------------------------------------
\* A direct caller of the sanitizer: it hands one value to one of its
\* functions, and the output of sanitize to sanitize again
\* ------------------------------------------------------------------------

RECURSIVE TextsOf(_)
\* the texts of at most n tokens: "java", "javascript:", "script:", "&",
\* "<b>", "onx=", "abcde", "<script></script>"
TextsOf(n) ==
  LET Tokens ==
        { <<106, 97, 118, 97>>,
          <<106, 97, 118, 97, 115, 99, 114, 105, 112, 116, 58>>,
          <<115, 99, 114, 105, 112, 116, 58>>,
          <<38>>,
          <<60, 98, 62>>,
          <<111, 110, 120, 61>>,
          <<97, 98, 99, 100, 101>>,
          <<60, 115, 99, 114, 105, 112, 116, 62, 60, 47, 115, 99, 114, 105, 112, 116, 62>> }
  IN IF n = 0 THEN { << >> }
     ELSE TextsOf(n - 1) \cup { t \o k : t \in TextsOf(n - 1), k \in Tokens }

SanitStart(function, arg) ==
  [pc |-> "start", function |-> function, arg |-> arg, profile |-> "strict",
   out |-> NoRet]

Sanitize ==
  /\ sanit.pc = "start" /\ sanit.function = "sanitize"
  /\ \E profile \in {"strict"} :
       sanit' = [sanit EXCEPT !.pc = "sanitized",
                              !.profile = profile,
                              !.out = Ok(sanitize(sanit.arg, profile))]
  /\ UNCHANGED << storage, memVars, calls, migrationsPersisted, cipher, logged,
                  manager, remoteVars >>

SanitizeAgain ==
  /\ sanit.pc = "sanitized"
  /\ sanit' = [sanit EXCEPT !.pc = "done",
                            !.function = "sanitize twice",
                            !.arg = Str(sanit.out.v),
                            !.out = Ok(sanitize(Str(sanit.out.v), sanit.profile))]
  /\ UNCHANGED << storage, memVars, calls, migrationsPersisted, cipher, logged,
                  manager, remoteVars >>

SanitizeForStorage ==
  /\ sanit.pc = "start" /\ sanit.function = "sanitizeForStorage"
  /\ sanit' = [sanit EXCEPT !.pc = "done", !.out = Ok(sanitizeForStorage(sanit.arg))]
  /\ UNCHANGED << storage, memVars, calls, migrationsPersisted, cipher, logged,
                  manager, remoteVars >>

SanitizeUrl ==
  /\ sanit.pc = "start" /\ sanit.function = "sanitizeUrl"
  /\ sanit' = [sanit EXCEPT !.pc = "done", !.out = sanitizeUrl(sanit.arg)]
  /\ UNCHANGED << storage, memVars, calls, migrationsPersisted, cipher, logged,
                  manager, remoteVars >>

SanitizeMessage ==
  /\ sanit.pc = "start" /\ sanit.function = "sanitizeMessage"
  /\ sanit' = [sanit EXCEPT !.pc = "done", !.out = sanitizeMessage(sanit.arg)]
  /\ UNCHANGED << storage, memVars, calls, migrationsPersisted, cipher, logged,
                  manager, remoteVars >>

SanitizeBatch ==
  /\ sanit.pc = "start" /\ sanit.function = "sanitizeBatch"
  /\ sanit' = [sanit EXCEPT !.pc = "done", !.out = sanitizeBatch(sanit.arg)]
  /\ UNCHANGED << storage, memVars, calls, migrationsPersisted, cipher, logged,
                  manager, remoteVars >>

\* no value
Absent == { Undefined, Null }

\* the values the caller hands over.  Urls: "javascript:alert(1)",
\* " JavaScript:a" after a tab, "data:text/html,a", "vbscript:a",
\* "file:///etc/passwd", "https://chatgpt.com/c/a1", "https://example.com",
\* "https://example.com" with a line feed after it.  Timestamps: "2024",
\* "yesterday".  Messages: "user", "chatgpt", "a&b", "javajavascript:script:"
InitSanitize ==
  LET NonStrings == { [num |-> 0], [num |-> 7] }
      TextInputs == { Str(t) : t \in TextsOf(MaxTokens) } \cup Absent \cup NonStrings
      Urls ==
        { <<106, 97, 118, 97, 115, 99, 114, 105, 112, 116, 58, 97, 108, 101, 114, 116, 40, 49, 41>>,
          << 9 >> \o <<32, 74, 97, 118, 97, 83, 99, 114, 105, 112, 116, 58, 97>>,
          <<100, 97, 116, 97, 58, 116, 101, 120, 116, 47, 104, 116, 109, 108, 44, 97>>,
          <<118, 98, 115, 99, 114, 105, 112, 116, 58, 97>>,
          <<102, 105, 108, 101, 58, 47, 47, 47, 101, 116, 99, 47, 112, 97, 115, 115, 119, 100>>,
          <<104, 116, 116, 112, 115, 58, 47, 47, 99, 104, 97, 116, 103, 112, 116, 46, 99, 111, 109, 47, 99, 47, 97, 49>>,
          <<104, 116, 116, 112, 115, 58, 47, 47, 101, 120, 97, 109, 112, 108, 101, 46, 99, 111, 109>>,
          <<104, 116, 116, 112, 115, 58, 47, 47, 101, 120, 97, 109, 112, 108, 101, 46, 99, 111, 109>> \o << 10 >> }
      UrlInputs == { Str(u) : u \in Urls } \cup Absent \cup NonStrings
      Timestamps == { Undefined, Str(<<50, 48, 50, 52>>), Str(<<121, 101, 115, 116, 101, 114, 100, 97, 121>>) }
      MessageInputs ==
        { Obj([role |-> Str(<<117, 115, 101, 114>>), content |-> content, timestamp |-> timestamp,
               url |-> url, site |-> Str(<<99, 104, 97, 116, 103, 112, 116>>)]) :
            content \in { Str(<<97, 38, 98>>), Str(<<106, 97, 118, 97, 106, 97, 118, 97, 115, 99, 114, 105, 112, 116, 58, 115, 99, 114, 105, 112, 116, 58>>), Undefined },
            timestamp \in Timestamps,
            url \in { Str(<<104, 116, 116, 112, 115, 58, 47, 47, 99, 104, 97, 116, 103, 112, 116, 46, 99, 111, 109, 47, 99, 47, 97, 49>>), Str(<<106, 97, 118, 97, 115, 99, 114, 105, 112, 116, 58, 97, 108, 101, 114, 116, 40, 49, 41>>), Undefined, [num |-> 7] } }
        \cup Absent
      BatchInputs ==
        { [arr |-> << >>] } \cup { [arr |-> << m >>] : m \in MessageInputs }
        \cup { [arr |-> << m, Undefined >>] : m \in MessageInputs } \cup Absent \cup { Str(<<117, 115, 101, 114>>) }
  IN
  /\ storage = EmptyStorage
  /\ InitMemory
  /\ cipher = CipherOff
  /\ logged = << >>
  /\ manager = ManagerOff
  /\ InitRemote
  /\ \/ \E arg \in TextInputs :
          sanit \in { SanitStart("sanitize", arg), SanitStart("sanitizeForStorage", arg) }
     \/ \E arg \in UrlInputs : sanit = SanitStart("sanitizeUrl", arg)
     \/ \E arg \in MessageInputs : sanit = SanitStart("sanitizeMessage", arg)
     \/ \E arg \in BatchInputs : sanit = SanitStart("sanitizeBatch", arg)

NextSanitize ==
  \/ Sanitize
  \/ SanitizeAgain
  \/ SanitizeForStorage
  \/ SanitizeUrl
  \/ SanitizeMessage
  \/ SanitizeBatch

\* the sanitizer on its own
SpecSanitize == InitSanitize /\ [][NextSanitize]_vars

\* ------------------------------------------------------------------------
\* Properties of the sanitizer (SpecSanitize)
\* ------------------------------------------------------------------------

\* C15: no dangerous pattern survives sanitization.  The output of sanitize
\* has no match of any entry of the dangerous-pattern list, also when one
\* occurrence is nested inside or split around another.
C15_NoPatternSurvives ==
  (sanit.pc = "sanitized")
  => \A n \in 1..Len(dangerousPatterns) :
       \A i \in 1..Len(sanit.out.v) :
         MatchEnd(dangerousPatterns[n], sanit.out.v, i) = 0

\* C16: idempotence of sanitize.  Sanitizing the output of sanitize once
\* more, with the same profile, gives that output again.
C16_SanitizeIdempotent ==
  (sanit.pc = "done" /\ sanit.function = "sanitize twice")
  => sanit.out = Ok(sanit.arg.str)

\* C17: length bound of sanitizeForStorage.  The result is never longer than
\* maxLength plus the marker; a strict-sanitized form of at most maxLength
\* characters is returned as it is, and a longer one is cut to exactly
\* maxLength characters followed by the marker, which holds "[truncated]".
C17_StorageLengthBound ==
  (sanit.pc = "done" /\ sanit.function = "sanitizeForStorage")
  => LET out == sanit.out.v
         sanitized == sanitize(sanit.arg, "strict")
     IN /\ Len(out) <= maxLength + Len(TruncatedMarker)
        /\ Len(sanitized) <= maxLength => out = sanitized
        /\ Len(sanitized) > maxLength =>
             /\ Len(out) = maxLength + Len(TruncatedMarker)
             /\ SubSeq(out, 1, maxLength) = SubSeq(sanitized, 1, maxLength)
             /\ SubSeq(out, maxLength + 1, Len(out)) = TruncatedMarker
             /\ \E i \in (maxLength + 1)..Len(out) : LitAt(<<91, 116, 114, 117, 110, 99, 97, 116, 101, 100, 93>>, out, i)

\* a text longer than maxLength after sanitization has been cut
C17_Witness ==
  /\ sanit.pc = "done" /\ sanit.function = "sanitizeForStorage"
  /\ Len(sanitize(sanit.arg, "strict")) > maxLength
  /\ Len(sanit.out.v) = maxLength + Len(TruncatedMarker)

\* C18: sanitizeUrl.  A URL whose scheme, controls stripped, trimmed and case
\* ignored, is javascript, data, vbscript or file gives "#"; every other URL
\* is returned unchanged.
C18_UrlPlaceholderOrUnchanged ==
  (sanit.pc = "done" /\ sanit.function = "sanitizeUrl" /\ IsStr(sanit.arg))
  => LET cleaned == Trim(StripControls(sanit.arg.str))
         refused == \E scheme \in DangerousSchemes \cup { <<102, 105, 108, 101, 58>> } :
                      LitAt(scheme, cleaned, 1)
     IN sanit.out = Ok(IF refused THEN <<35>> ELSE sanit.arg.str)

\* C19: the sanitizer functions never raise.  Every call returns a value;
\* an absent message gives {role: '', content: ''} and a batch that is no
\* array gives the empty list.
C19_SanitizerNeverRaises ==
  (sanit.pc \in {"sanitized", "done"})
  => /\ sanit.out.ok
     /\ (sanit.function = "sanitizeMessage" /\ sanit.arg \in Absent)
          => sanit.out = Ok([role |-> << >>, content |-> << >>])
     /\ (sanit.function = "sanitizeBatch" /\ "arr" \notin DOMAIN sanit.arg)
          => sanit.out = Ok(<< >>)

\* ------------------------------------------------------------------------
\* background.js: storeMemory, searchMemories and the offline queue
\* ------------------------------------------------------------------------

\* the literal lit is in s at i, case observed
ExactAt(lit, s, i) ==
  /\ (i + Len(lit)) - 1 <= Len(s)
  /\ SubSeq(s, i, (i + Len(lit)) - 1) = lit

\* sanitizer.detectXSS(content)
detectXSS(content) ==
  LET \* lit, then any whitespace, then the character c: /lit\s*c/i at i
      SpacedAt(lit, c, s, i) ==
        /\ LitAt(lit, s, i)
        /\ LET j == i + Len(lit)
               afterSpace == Least({ k \in j..(Len(s) + 1) : k > Len(s) \/ ~IsSpace(s[k]) })
           IN afterSpace <= Len(s) /\ s[afterSpace] = c
      \* open, then one character or more that is no ">", then attr:
      \* /<img[^>]+onerror/i at i
      TagWithAt(open, attr, s, i) ==
        /\ LitAt(open, s, i)
        /\ \E k \in (i + Len(open) + 1)..Len(s) :
             /\ LitAt(attr, s, k)
             /\ \A m \in (i + Len(open))..(k - 1) : s[m] # 62
  IN
  /\ ~Falsy(content)
  /\ LET s == StringOf(content)
     IN \E i \in 1..Len(s) :
          \/ LitAt(<<60, 115, 99, 114, 105, 112, 116>>, s, i)
          \/ LitAt(<<106, 97, 118, 97, 115, 99, 114, 105, 112, 116, 58>>, s, i)
          \/ HandlerEnd(s, i) > 0
          \/ LitAt(<<60, 105, 102, 114, 97, 109, 101>>, s, i)
          \/ SpacedAt(<<101, 118, 97, 108>>, 40, s, i)
          \/ LitAt(<<100, 111, 99, 117, 109, 101, 110, 116, 46, 119, 114, 105, 116, 101>>, s, i)
          \/ LitAt(<<100, 111, 99, 117, 109, 101, 110, 116, 46, 119, 114, 105, 116, 101, 108, 110>>, s, i)
          \/ LitAt(<<100, 111, 99, 117, 109, 101, 110, 116, 46, 99, 111, 111, 107, 105, 101>>, s, i)
          \/ LitAt(<<119, 105, 110, 100, 111, 119, 46, 108, 111, 99, 97, 116, 105, 111, 110>>, s, i)
          \/ SpacedAt(<<105, 110, 110, 101, 114, 104, 116, 109, 108>>, 61, s, i)
          \/ TagWithAt(<<60, 105, 109, 103>>, <<111, 110, 101, 114, 114, 111, 114>>, s, i)
          \/ TagWithAt(<<60, 115, 118, 103>>, <<111, 110, 108, 111, 97, 100>>, s, i)

\* extractConversationId(url): "/c/" of ChatGPT, then "/chat/" of Claude
extractConversationId(url) ==
  LET \* [a-zA-Z0-9-]
      IsIdChar(c) == IsAlnum(c) \/ c = 45
      \* url.match(/prefix([a-zA-Z0-9-]+)/): match[1] of the leftmost match, or
      \* null
      MatchId(prefix) ==
        LET starts == { i \in 1..Len(url) :
                          /\ ExactAt(prefix, url, i)
                          /\ i + Len(prefix) <= Len(url)
                          /\ IsIdChar(url[i + Len(prefix)]) }
            from == Least(starts) + Len(prefix)
            after == Least({ k \in from..(Len(url) + 1) : k > Len(url) \/ ~IsIdChar(url[k]) })
        IN IF starts = {} THEN NullStr ELSE SubSeq(url, from, after - 1)
  IN
  IF MatchId(<<47, 99, 47>>) # NullStr THEN MatchId(<<47, 99, 47>>)
  ELSE MatchId(<<47, 99, 104, 97, 116, 47>>)

\* sanitizer.sanitizeConversationId(id)
sanitizeConversationId(id) ==
  IF ~Truthy(id) THEN << >> ELSE SelectSeq(id, IsTokenChar)

\* s.slice(0, n)
Slice(s, n) == SubSeq(s, 1, IF Len(s) < n THEN Len(s) ELSE n)

\* the characters of the content that hashMemory hashes, and of the query
\* that analyzeQuery takes as search terms
HashedChars == 100
SearchChars == 100

RECURSIVE HashUpTo(_, _)
\* the hash after the first n passes of the loop of hashMemory
HashUpTo(str, n) ==
  LET \* x << 5 on a 32-bit integer
      ShiftLeft5(x) ==
        LET low == x % 134217728
        IN IF low >= 67108864 THEN (low - 134217728) * 32 ELSE low * 32
      \* x + y brought back to a 32-bit integer (hash & hash)
      AddInt32(x, y) ==
        IF x >= 0 /\ y >= 0 /\ x > 2147483647 - y
          THEN ((x - 1073741824) - 1073741824) + ((y - 1073741824) - 1073741824)
        ELSE IF x < 0 /\ y < 0 /\ x < (-2147483647 - 1) - y
          THEN ((x + 1073741824) + 1073741824) + ((y + 1073741824) + 1073741824)
        ELSE x + y
      \* x - y brought back to a 32-bit integer
      SubInt32(x, y) ==
        IF y = -2147483647 - 1 THEN AddInt32(AddInt32(x, 2147483647), 1)
        ELSE AddInt32(x, 0 - y)
  IN
  IF n = 0 THEN 0
  ELSE LET hash == HashUpTo(str, n - 1)
       IN IF hash = 0 THEN str[n]
          ELSE AddInt32(SubInt32(ShiftLeft5(hash), hash), str[n])

\* hashMemory(memory): the 32-bit hash, which toString(36) writes one-to-one
hashMemory(memory) ==
  LET str == memory.role \o << 58 >> \o Slice(memory.content, HashedChars)
  IN HashUpTo(str, Len(str))

RECURSIVE encodeURIComponent(_)
\* encodeURIComponent(s) for text of one byte a character
encodeURIComponent(s) ==
  LET \* the digit of n in base 16, in upper case
      HexDigit(n) == IF n < 10 THEN 48 + n ELSE 55 + n
      \* A-Z a-z 0-9 - _ . ! ~ * ' ( )
      IsUnreserved(c) == IsAlnum(c) \/ c \in {45, 95, 46, 33, 126, 42, 39, 40, 41}
  IN
  IF s = << >> THEN << >>
  ELSE (IF IsUnreserved(Head(s)) THEN << Head(s) >>
        ELSE << 37, HexDigit(Head(s) \div 16), HexDigit(Head(s) % 16) >>)
       \o encodeURIComponent(Tail(s))

\* analyzeQuery(query).searchTerms
analyzeQuery(query) ==
  LET \* 'continue', 'remember', 'last time', 'yesterday', 'earlier', 'previous',
      \* 'we discussed', 'we talked'
      memoryKeywords ==
        { <<99, 111, 110, 116, 105, 110, 117, 101>>, <<114, 101, 109, 101, 109, 98, 101, 114>>, <<108, 97, 115, 116, 32, 116, 105, 109, 101>>, <<121, 101, 115, 116, 101, 114, 100, 97, 121>>, <<101, 97, 114, 108, 105, 101, 114>>, <<112, 114, 101, 118, 105, 111, 117, 115>>,
          <<119, 101, 32, 100, 105, 115, 99, 117, 115, 115, 101, 100>>, <<119, 101, 32, 116, 97, 108, 107, 101, 100>> }
  IN
  IF \E keyword \in memoryKeywords : \E i \in 1..Len(query) : LitAt(keyword, query, i)
    THEN Slice(query, SearchChars)
    ELSE NullStr

\* "default"
DefaultConversation == <<100, 101, 102, 97, 117, 108, 116>>

\* a storeMemory that sends the captured content
memoryDataRaw(user, conversationId, sanitizedMemory, memory, sender) ==
  [user_id |-> user,
   conversation_id |-> IF Truthy(conversationId) THEN conversationId
                       ELSE DefaultConversation,
   role |-> sanitizedMemory.role,
   content |-> StringOf(Field(memory, "content")),
   site |-> sanitizedMemory.site,
   metadata |-> [url |-> sanitizedMemory.url,
                 timestamp |-> sanitizedMemory.timestamp,
                 tabId |-> Field(Field(sender, "tab"), "id")]]

\* memoryData of storeMemory
memoryData(user, conversationId, sanitizedMemory, memory, sender) ==
  [user_id |-> user,
   conversation_id |-> IF Truthy(conversationId) THEN conversationId
                       ELSE DefaultConversation,
   role |-> sanitizedMemory.role,
   content |-> sanitizedMemory.content,
   site |-> sanitizedMemory.site,
   metadata |-> [url |-> sanitizedMemory.url,
                 timestamp |-> sanitizedMemory.timestamp,
                 tabId |-> Field(Field(sender, "tab"), "id")]]

\* "Keep only last 100 items"
QueueCapacity == 100

\* storeMemory(memory, sender) is called and issues storage.get('enabled')
StoreCall(memory, sender, caller) ==
  [IdleCall EXCEPT !.op = "storeMemory",
                   !.pc = "S_enabled",
                   !.arg = [memory |-> memory, sender |-> sender],
                   !.caller = caller]

\* queueForLater(memory) is called and issues storage.get('offlineQueue')
Queueing(a) ==
  [a EXCEPT !.pc = "Q_get",
            !.arg = [memory |-> a.arg.memory, sender |-> a.arg.sender]]

\* storeMemory(memory, sender) is called with a captured memory by a
\* message from tab 1
SStart(memory) ==
  /\ CanStart
  /\ apiCalls < MaxApiCalls
  /\ calls' = Started(StoreCall(memory, Obj([tab |-> Obj([id |-> [num |-> 1]])]),
                                Undefined))
  /\ apiCalls' = apiCalls + 1
  /\ UNCHANGED << storage, memVars, migrationsPersisted, cipher, logged, sanit, manager,
                  sent, replayTimers >>

\* storage.get('enabled') resolves: getCredentials is called
SEnabled(a) ==
  /\ a.pc = "S_enabled"
  /\ IF Has(storage, "enabled") /\ ~storage.enabled
       THEN /\ calls' = Moved(a, Returned(a, Ok([success |-> FALSE,
                                                 reason |-> "disabled"])))
            /\ UNCHANGED memVars
       ELSE getCredentials([a EXCEPT !.pc = "S_credentials"], a)
  /\ UNCHANGED << storage, migrationsPersisted, cipher, otherVars >>

\* a storeMemory that ends when detectXSS flags the content
SCredentialsHalt(a) ==
  /\ a.pc = "S_credentials"
  /\ LET credentials == a.ret.v
         memory == a.arg.memory
         sanitized == sanitizeMessage(memory)
     IN IF credentials = Null \/ ~sanitized.ok
          THEN /\ calls' = Moved(a, Queueing(a))
               /\ UNCHANGED logged
          ELSE LET conversationId ==
                     sanitizeConversationId(extractConversationId(sanitized.v.url))
                   next == [a EXCEPT !.pc = "S_dupGet",
                                     !.credentials = credentials,
                                     !.arg = [memory |-> memory,
                                              sender |-> a.arg.sender,
                                              sanitizedMemory |-> sanitized.v,
                                              conversationId |-> conversationId]]
                   event == SecurityEvent("XSS_BLOCKED", Now + 1)
               IN IF detectXSS(Field(memory, "content"))
                    THEN /\ Now < RingCapacity + MaxEvents
                         /\ logged' = Append(logged, event)
                         /\ calls' = Moved(a, Returned(a, Ok([success |-> FALSE,
                                                              reason |-> "blocked"]))) (+)
                              SetToBag({[IdleCall EXCEPT !.op = "logSecurityEvent",
                                                         !.pc = "E_get",
                                                         !.arg = [event |-> event]]})
                    ELSE /\ calls' = Moved(a, next)
                         /\ UNCHANGED logged
  /\ UNCHANGED << storage, memVars, migrationsPersisted, cipher, sanit, manager, remoteVars >>

\* getCredentials has returned: without credentials the memory is queued;
\* with them it is sanitized (an error queues it), a suspect content is
\* logged, and isDuplicate issues storage.get('recentHashes')
SCredentials(a) ==
  /\ a.pc = "S_credentials"
  /\ LET credentials == a.ret.v
         memory == a.arg.memory
         sanitized == sanitizeMessage(memory)
     IN IF credentials = Null \/ ~sanitized.ok
          THEN /\ calls' = Moved(a, Queueing(a))
               /\ UNCHANGED logged
          ELSE LET conversationId ==
                     sanitizeConversationId(extractConversationId(sanitized.v.url))
                   next == [a EXCEPT !.pc = "S_dupGet",
                                     !.credentials = credentials,
                                     !.arg = [memory |-> memory,
                                              sender |-> a.arg.sender,
                                              sanitizedMemory |-> sanitized.v,
                                              conversationId |-> conversationId]]
                   event == SecurityEvent("XSS_BLOCKED", Now + 1)
               IN IF detectXSS(Field(memory, "content"))
                    THEN /\ Now < RingCapacity + MaxEvents
                         /\ logged' = Append(logged, event)
                         /\ calls' = Moved(a, next) (+)
                              SetToBag({[IdleCall EXCEPT !.op = "logSecurityEvent",
                                                         !.pc = "E_get",
                                                         !.arg = [event |-> event]]})
                    ELSE /\ calls' = Moved(a, next)
                         /\ UNCHANGED logged
  /\ UNCHANGED << storage, memVars, migrationsPersisted, cipher, sanit, manager, remoteVars >>

\* storage.get('recentHashes') resolves: a known hash ends storeMemory, a
\* new one is added and storage.set({ recentHashes }) issued (no hash of
\* the model is an hour old)
SDupGet(a) ==
  /\ a.pc = "S_dupGet"
  /\ LET recentHashes == IF Has(storage, "recentHashes") THEN storage.recentHashes
                         ELSE {}
         hash == hashMemory(a.arg.sanitizedMemory)
     IN IF hash \in recentHashes
          THEN calls' = Moved(a, Returned(a, Ok([success |-> TRUE,
                                                 duplicate |-> TRUE])))
          ELSE calls' = Moved(a, [a EXCEPT !.pc = "S_dupSet",
                                           !.arg = [recentHashes |-> recentHashes \cup {hash}]
                                                   @@ a.arg])
  /\ UNCHANGED << storage, memVars, migrationsPersisted, cipher, otherVars >>

\* the set of isDuplicate takes effect: the memory is POSTed
SDupSet(a) ==
  LET \* the POST of storeMemory; raw and response are history: the memory
      \* storeMemory was handed, and how the fetch settled
      StoreRequest(credentials, body, raw) ==
        [method |-> "POST",
         response |-> "pending",
         url |-> credentials.supabaseUrl \o <<47, 114, 101, 115, 116, 47, 118, 49, 47, 109, 101, 109, 111, 114, 105, 101, 115>>,
         apikey |-> credentials.supabaseKey,
         body |-> JSONstringify(body),
         raw |-> raw]
  IN
  /\ a.pc = "S_dupSet"
  /\ storage' = StorageSet(storage, [recentHashes |-> a.arg.recentHashes])
  /\ sent' = Append(sent,
                    StoreRequest(a.credentials,
                                 memoryData(userId, a.arg.conversationId,
                                            a.arg.sanitizedMemory, a.arg.memory,
                                            a.arg.sender),
                                 a.arg.memory))
  /\ calls' = Moved(a, [a EXCEPT !.pc = "S_fetch",
                                  !.arg = [request |-> Len(sent) + 1] @@ a.arg])
  /\ UNCHANGED << memVars, migrationsPersisted, cipher, logged, sanit, manager,
                  replayTimers, apiCalls >>

\* the fetch of storeMemory settles with a response that is ok, with one
\* that is not ok, or with an exception and no response: after a response
\* credentials.supabaseKey = null; updateStats('stored') issues
\* storage.get('stats'), an error queues the memory
SFetch(a) ==
  /\ a.pc = "S_fetch"
  /\ \E response \in {"ok", "httpError", "exception"} :
       LET cleared == [a EXCEPT !.credentials.supabaseKey = NullStr]
       IN /\ sent' = [sent EXCEPT ![a.arg.request].response = response]
          /\ IF response = "ok"
               THEN calls' = Moved(a, [cleared EXCEPT !.pc = "T_get"])
             ELSE IF response = "httpError"
               THEN calls' = Moved(a, Queueing(cleared))
             ELSE calls' = Moved(a, Queueing(a))
  /\ UNCHANGED << storage, memVars, migrationsPersisted, cipher, logged, sanit, manager,
                  replayTimers, apiCalls >>

\* storage.get('stats') of updateStats resolves
TGet(a) ==
  /\ a.pc = "T_get"
  /\ LET action == IF a.op = "storeMemory" THEN "stored" ELSE "searched"
         stats == IF Has(storage, "stats") THEN storage.stats ELSE EmptyStorage
         \* stats[k] || 0
         Count(s, k) == IF k \in DOMAIN s THEN s[k] ELSE 0
         counted == [k \in {action, "lastActive"} |->
                       IF k = action THEN Count(stats, action) + 1 ELSE 1] @@ stats
     IN IF Count(stats, "firstUse") = 0
          THEN calls' = Moved(a, [a EXCEPT !.pc = "T_setFirst",
                                           !.arg = [stats |-> [firstUse |-> 1] @@ counted]
                                                   @@ a.arg])
          ELSE calls' = Moved(a, [a EXCEPT !.pc = "T_set",
                                           !.arg = [stats |-> counted] @@ a.arg])
  /\ UNCHANGED << storage, memVars, migrationsPersisted, cipher, otherVars >>

\* storage.set({ firstUse }) takes effect
TSetFirst(a) ==
  /\ a.pc = "T_setFirst"
  /\ storage' = StorageSet(storage, [firstUse |-> 1])
  /\ calls' = Moved(a, [a EXCEPT !.pc = "T_set"])
  /\ UNCHANGED << memVars, migrationsPersisted, cipher, otherVars >>

\* storage.set({ stats }) takes effect: storeMemory or searchMemories
\* returns
TSet(a) ==
  /\ a.pc = "T_set"
  /\ storage' = StorageSet(storage, [stats |-> a.arg.stats])
  /\ calls' = Moved(a, Returned(a, IF a.op = "storeMemory"
                                     THEN Ok([success |-> TRUE])
                                     ELSE Ok(a.arg.result)))
  /\ UNCHANGED << memVars, migrationsPersisted, cipher, otherVars >>

\* a queueForLater that keeps every item
QGetKeepAll(a) ==
  /\ a.pc = "Q_get"
  /\ LET sanitized == sanitizeMessage(a.arg.memory)
         item == Obj([queuedAt |-> [num |-> 1]]
                     @@ [k \in DOMAIN sanitized.v |-> Str(sanitized.v[k])])
         pushed == Append(GetList(storage, "offlineQueue"), item)
     IN IF ~sanitized.ok
          THEN calls' = Moved(a, Returned(a, sanitized))
          ELSE calls' = Moved(a, [a EXCEPT !.pc = "Q_set",
                                           !.arg = [offlineQueue |-> pushed]
                                                   @@ a.arg])
  /\ UNCHANGED << storage, memVars, migrationsPersisted, cipher, otherVars >>

\* storage.get('offlineQueue') of queueForLater resolves: the memory is
\* sanitized and { ...sanitized, queuedAt: Date.now() } pushed, and
\* storage.set({ offlineQueue }) issued
QGet(a) ==
  /\ a.pc = "Q_get"
  /\ LET sanitized == sanitizeMessage(a.arg.memory)
         item == Obj([queuedAt |-> [num |-> 1]]
                     @@ [k \in DOMAIN sanitized.v |-> Str(sanitized.v[k])])
         pushed == Append(GetList(storage, "offlineQueue"), item)
         offlineQueue == IF Len(pushed) > QueueCapacity THEN Tail(pushed) ELSE pushed
     IN IF ~sanitized.ok
          THEN calls' = Moved(a, Returned(a, sanitized))
          ELSE calls' = Moved(a, [a EXCEPT !.pc = "Q_set",
                                           !.arg = [offlineQueue |-> offlineQueue]
                                                   @@ a.arg])
  /\ UNCHANGED << storage, memVars, migrationsPersisted, cipher, otherVars >>

\* the set of queueForLater takes effect: the timeout of
\* processOfflineQueue is armed and storeMemory returns
QSet(a) ==
  /\ a.pc = "Q_set"
  /\ storage' = StorageSet(storage, [offlineQueue |-> a.arg.offlineQueue])
  /\ replayTimers' = replayTimers + 1
  /\ calls' = Moved(a, Returned(a, Ok([success |-> TRUE, queued |-> TRUE])))
  /\ UNCHANGED << memVars, migrationsPersisted, cipher, logged, sanit, manager, sent,
                  apiCalls >>

\* a timeout of queueForLater is due: processOfflineQueue issues
\* storage.get('offlineQueue')
PStart ==
  /\ replayTimers > 0
  /\ CanStart
  /\ apiCalls < MaxApiCalls
  /\ replayTimers' = replayTimers - 1
  /\ apiCalls' = apiCalls + 1
  /\ calls' = Started([IdleCall EXCEPT !.op = "processOfflineQueue",
                                       !.pc = "P_get"])
  /\ UNCHANGED << storage, memVars, migrationsPersisted, cipher, logged, sanit, manager,
                  sent >>

\* the loop of processOfflineQueue comes to the item at index: it calls
\* storeMemory(memory, {}), or, past the last, issues
\* storage.set({ offlineQueue: remaining })
Replaying(a, offlineQueue, index, remaining) ==
  LET loop == [a EXCEPT !.arg = [offlineQueue |-> offlineQueue, index |-> index,
                                 remaining |-> remaining]]
  IN IF index <= Len(offlineQueue)
       THEN StoreCall(offlineQueue[index], Obj(EmptyStorage),
                      [loop EXCEPT !.pc = "P_result"])
       ELSE [loop EXCEPT !.pc = "P_set"]

\* storage.get('offlineQueue') of processOfflineQueue resolves
PGet(a) ==
  /\ a.pc = "P_get"
  /\ LET offlineQueue == GetList(storage, "offlineQueue")
     IN IF offlineQueue = << >>
          THEN calls' = Moved(a, Returned(a, Ok(Undefined)))
          ELSE calls' = Moved(a, Replaying(a, offlineQueue, 1, << >>))
  /\ UNCHANGED << storage, memVars, migrationsPersisted, cipher, otherVars >>

\* a storeMemory of the loop has settled
PResult(a) ==
  /\ a.pc = "P_result"
  /\ LET result == a.ret
         memory == a.arg.offlineQueue[a.arg.index]
     IN IF ~result.ok
          THEN calls' = Moved(a, Returned(a, result))
          ELSE calls' = Moved(a,
                 Replaying(a, a.arg.offlineQueue, a.arg.index + 1,
                           IF ~GetFlag(result.v, "success") /\ ~GetFlag(result.v, "queued")
                             THEN Append(a.arg.remaining, memory)
                             ELSE a.arg.remaining))
  /\ UNCHANGED << storage, memVars, migrationsPersisted, cipher, otherVars >>

\* the set of processOfflineQueue takes effect
PSet(a) ==
  /\ a.pc = "P_set"
  /\ storage' = StorageSet(storage, [offlineQueue |-> a.arg.remaining])
  /\ calls' = Moved(a, Returned(a, Ok(Undefined)))
  /\ UNCHANGED << memVars, migrationsPersisted, cipher, otherVars >>

\* searchMemories(query) is called: the query is sanitized and
\* getCredentials called
SrchStart(query) ==
  /\ CanStart
  /\ apiCalls < MaxApiCalls
  /\ apiCalls' = apiCalls + 1
  /\ getCredentials([IdleCall EXCEPT !.op = "searchMemories",
                                     !.pc = "R_credentials",
                                     !.arg = [query |-> query,
                                              sanitizedQuery |-> sanitize(query, "strict")]],
                    Undefined)
  /\ UNCHANGED << storage, migrationsPersisted, cipher, logged, sanit, manager, sent,
                  replayTimers >>

\* getCredentials has returned: without credentials the search is empty,
\* with them the URL is built and fetched
RCredentials(a) ==
  LET \* the GET of searchMemories; raw is history: the query searchMemories was
      \* handed
      SearchRequest(credentials, user, searchTerms, raw) ==
        LET \* the URL searchMemories fetches
            SearchUrl ==
              credentials.supabaseUrl \o <<47, 114, 101, 115, 116, 47, 118, 49, 47, 109, 101, 109, 111, 114, 105, 101, 115, 63, 117, 115, 101, 114, 95, 105, 100, 61, 101, 113, 46>> \o user
              \o (IF Truthy(searchTerms)
                    THEN <<38, 99, 111, 110, 116, 101, 110, 116, 61, 105, 108, 105, 107, 101, 46, 42>> \o encodeURIComponent(searchTerms) \o << 42 >>
                    ELSE << >>)
              \o <<38, 111, 114, 100, 101, 114, 61, 99, 114, 101, 97, 116, 101, 100, 95, 97, 116, 46, 100, 101, 115, 99, 38, 108, 105, 109, 105, 116, 61, 53>>
        IN
        [method |-> "GET",
         url |-> SearchUrl,
         apikey |-> credentials.supabaseKey,
         searchTerms |-> searchTerms,
         raw |-> raw]
  IN
  /\ a.pc = "R_credentials"
  /\ IF a.ret.v = Null
       THEN /\ calls' = Moved(a, Returned(a, Ok(<< >>)))
            /\ UNCHANGED sent
       ELSE /\ sent' = Append(sent,
                              SearchRequest(a.ret.v, userId,
                                            analyzeQuery(a.arg.sanitizedQuery),
                                            a.arg.query))
            /\ calls' = Moved(a, [a EXCEPT !.pc = "R_fetch",
                                            !.credentials = a.ret.v])
  /\ UNCHANGED << storage, memVars, migrationsPersisted, cipher, logged, sanit, manager,
                  replayTimers, apiCalls >>

\* the fetch of searchMemories settles (after a response
\* credentials.supabaseKey = null) and response.json() resolves: the
\* memories are sanitized and updateStats('searched') issues
\* storage.get('stats'); an error makes the search empty
RFetch(a) ==
  LET \* what the remote API answers a search with: a list of memories, or null
      \* ("user", "a<b", "2024", "chatgpt")
      RemoteMemories ==
        { [arr |-> << >>],
          [arr |-> << Obj([role |-> Str(<<117, 115, 101, 114>>), content |-> Str(<<97, 60, 98>>),
                      timestamp |-> Str(<<50, 48, 50, 52>>), site |-> Str(<<99, 104, 97, 116, 103, 112, 116>>)]) >>],
          Null }
  IN
  /\ a.pc = "R_fetch"
  /\ \E response \in {"ok", "httpError", "exception"}, memories \in RemoteMemories :
       LET sanitizedMemories == sanitizeBatch(memories)
           cleared == [a EXCEPT !.credentials.supabaseKey = NullStr]
       IN IF response = "ok" /\ sanitizedMemories.ok
            THEN calls' = Moved(a, [cleared EXCEPT !.pc = "T_get",
                                                   !.arg = [result |-> sanitizedMemories.v]
                                                           @@ a.arg])
          ELSE IF response = "exception"
            THEN calls' = Moved(a, Returned(a, Ok(<< >>)))
          ELSE calls' = Moved(a, Returned(cleared, Ok(<< >>)))
  /\ UNCHANGED << storage, memVars, migrationsPersisted, cipher, otherVars >>

InitStore ==
  LET \* what the storage holds when memories arrive: the credentials saved
      \* earlier, with capture enabled or disabled, or no credentials
      StoreStorages ==
        LET passphrase == CHOOSE p \in Passphrases : TRUE
            saved == CHOOSE s \in MigratedStorages :
                       /\ Has(s, "installationKey")
                       /\ s.installationKey = encryptInstallationKey(passphrase)
        IN { saved,
             [enabled |-> FALSE] @@ saved,
             StorageRemove(saved, {"encryptedCredentials", "installationKey"}) }
  IN
  /\ storage \in StoreStorages
  /\ encryptedCredentials = GetBlob(storage, "encryptedCredentials")
  /\ sessionPassphrase = NullStr
  /\ userId = storage.userId
  /\ passphraseTimeout = 0
  /\ timers = {}
  /\ calls = EmptyBag
  /\ sinceReset = 0
  /\ cachedByStale = FALSE
  /\ migrationsPersisted = 0
  /\ cipher = CipherOff
  /\ InitOther

NextStore ==
  LET \* the memories the content script captures: "a&b" in a ChatGPT
      \* conversation, a content with "javascript:" under a javascript: URL, and
      \* a memory whose timestamp is no date
      MemoryValues ==
        { Obj([role |-> Str(<<117, 115, 101, 114>>), content |-> Str(<<97, 38, 98>>), timestamp |-> Str(<<50, 48, 50, 52>>),
               url |-> Str(<<104, 116, 116, 112, 115, 58, 47, 47, 99, 104, 97, 116, 103, 112, 116, 46, 99, 111, 109, 47, 99, 47, 97, 49>>), site |-> Str(<<99, 104, 97, 116, 103, 112, 116>>)]),
          Obj([role |-> Str(<<97, 115, 115, 105, 115, 116, 97, 110, 116>>), content |-> Str(<<106, 97, 118, 97, 106, 97, 118, 97, 115, 99, 114, 105, 112, 116, 58, 115, 99, 114, 105, 112, 116, 58>>),
               url |-> Str(<<106, 97, 118, 97, 115, 99, 114, 105, 112, 116, 58, 97, 108, 101, 114, 116, 40, 49, 41>>), site |-> Str(<<99, 108, 97, 117, 100, 101>>)]),
          Obj([role |-> Str(<<117, 115, 101, 114>>), content |-> Str(<<97, 38, 98>>), timestamp |-> Str(<<121, 101, 115, 116, 101, 114, 100, 97, 121>>),
               url |-> Str(<<104, 116, 116, 112, 115, 58, 47, 47, 99, 104, 97, 116, 103, 112, 116, 46, 99, 111, 109, 47, 99, 47, 97, 49>>), site |-> Str(<<99, 104, 97, 116, 103, 112, 116>>)]) }
      \* "remember a&b", "a&b"
      Queries == { Str(<<114, 101, 109, 101, 109, 98, 101, 114, 32, 97, 38, 98>>), Str(<<97, 38, 98>>), Undefined }
  IN
  \/ \E memory \in MemoryValues : SStart(memory)
  \/ \E a \in Activations : SEnabled(a)
  \/ \E a \in Activations : SCredentials(a)
  \/ \E a \in Activations : SDupGet(a)
  \/ \E a \in Activations : SDupSet(a)
  \/ \E a \in Activations : SFetch(a)
  \/ \E a \in Activations : TGet(a)
  \/ \E a \in Activations : TSetFirst(a)
  \/ \E a \in Activations : TSet(a)
  \/ \E a \in Activations : QGet(a)
  \/ \E a \in Activations : QSet(a)
  \/ PStart
  \/ \E a \in Activations : PGet(a)
  \/ \E a \in Activations : PResult(a)
  \/ \E a \in Activations : PSet(a)
  \/ \E query \in Queries : SrchStart(query)
  \/ \E a \in Activations : RCredentials(a)
  \/ \E a \in Activations : RFetch(a)
  \/ \E a \in Activations : GGetKey(a)
  \/ \E a \in Activations : GDecrypt(a)
  \/ \E a \in Activations : EGet(a)
  \/ \E a \in Activations : ESet(a)
  \/ \E a \in Activations : Respond(a)

\* the memories on their way to the remote API
SpecStore == InitStore /\ [][NextStore]_vars

\* ------------------------------------------------------------------------
\* Properties of the remote boundary (SpecStore)
\* ------------------------------------------------------------------------

\* C20: only sanitized content crosses the remote boundary.  Every record
\* storeMemory POSTs, memories replayed from the offline queue included,
\* carries the sanitizer's output for role, content, site, url and
\* conversation_id, and every search term searchMemories puts in a URL is
\* the sanitizer's output for the query.
C20_OnlySanitizedIsSent ==
  [][
      LET \* sanitizeMessage(memory).url for a memory that sanitizeMessage accepts
          SanitizedUrl(memory) ==
            IF Falsy(Field(memory, "url")) THEN << >>
            ELSE sanitizeUrl(Field(memory, "url")).v
          \* the fields of the POSTed record are the sanitized fields of the
          \* memory that storeMemory was handed
          PostSanitized(request) ==
            LET body == request.body.json
                memory == request.raw
            IN /\ body.role = sanitize(Field(memory, "role"), "strict")
               /\ body.content = sanitizeForStorage(Field(memory, "content"))
               /\ body.site = sanitize(Field(memory, "site"), "strict")
               /\ body.metadata.url = SanitizedUrl(memory)
               /\ body.conversation_id \in
                    { sanitizeConversationId(extractConversationId(SanitizedUrl(memory))),
                      DefaultConversation }
          \* the search term of the URL is the start of the sanitized query
          SearchSanitized(request) ==
            Truthy(request.searchTerms) =>
              /\ request.searchTerms = Slice(sanitize(request.raw, "strict"), SearchChars)
              /\ \E i \in 1..Len(request.url) :
                   ExactAt(encodeURIComponent(request.searchTerms), request.url, i)
      IN \A i \in (Len(sent) + 1)..Len(sent') :
           /\ sent'[i].method = "POST" => PostSanitized(sent'[i])
           /\ sent'[i].method = "GET" => SearchSanitized(sent'[i])
  ]_vars

\* a memory that was captured, POSTed without success and queued has been
\* replayed and POSTed again, with a content that is not the queued one
C20_Witness ==
  \E i, j \in 1..Len(sent) :
    /\ i < j
    /\ sent[i].method = "POST"
    /\ "queuedAt" \notin DOMAIN sent[i].raw.obj
    /\ sent[j].method = "POST"
    /\ "queuedAt" \in DOMAIN sent[j].raw.obj
    /\ sent[j].body.json.content # StringOf(Field(sent[j].raw, "content"))

\* ------------------------------------------------------------------------
\* Properties of storeMemory and the offline queue (SpecStore)
\* ------------------------------------------------------------------------

\* C21: a security rejection does not halt the operation.  When storeMemory
\* has its credentials and its sanitized memory and detectXSS flags the raw
\* content, an XSS_BLOCKED event is handed to logSecurityEvent, and
\* storeMemory goes on to the duplicate check exactly as it does for a
\* content that is not flagged: with the same memory, the same sanitized
\* memory, the same credentials and the same conversation id.
C21_RejectionDoesNotHalt ==
  [][\A a \in Activations :
       LET memory == a.arg.memory
           sanitized == sanitizeMessage(memory)
           flagged == detectXSS(Field(memory, "content"))
           next == [a EXCEPT !.pc = "S_dupGet",
                             !.credentials = a.ret.v,
                             !.arg = [memory |-> memory,
                                      sender |-> a.arg.sender,
                                      sanitizedMemory |-> sanitized.v,
                                      conversationId |->
                                        sanitizeConversationId(
                                          extractConversationId(sanitized.v.url))]]
       IN (/\ a.pc = "S_credentials"
           /\ SCredentials(a)
           /\ a.ret.v # Null
           /\ sanitized.ok)
          => /\ next \in BagToSet(calls')
             /\ flagged =>
                  /\ Len(logged') = Len(logged) + 1
                  /\ logged'[Len(logged')].type = "XSS_BLOCKED"
                  /\ \E e \in BagToSet(calls') :
                       /\ e.op = "logSecurityEvent"
                       /\ e.arg.event = logged'[Len(logged')]
                       /\ calls' = Moved(a, next) (+) SetToBag({e})
             /\ ~flagged => calls' = Moved(a, next) /\ logged' = logged
  ]_vars

\* a memory whose raw content detectXSS flags has been logged as
\* XSS_BLOCKED and POSTed, sanitized, all the same
C21_Witness ==
  \E i \in 1..Len(sent), k \in 1..Len(logged) :
    /\ sent[i].method = "POST"
    /\ detectXSS(Field(sent[i].raw, "content"))
    /\ sent[i].body.json.content = sanitizeForStorage(Field(sent[i].raw, "content"))
    /\ logged[k].type = "XSS_BLOCKED"

\* C22: decrypted credentials are discarded after one use.  When storeMemory
\* or searchMemories returns on a path on which getCredentials gave it
\* credentials, the supabaseKey of that credentials object has been cleared.
C22_CredentialsDiscarded ==
  \A c \in Activations :
    (/\ c.pc = "done"
     /\ c.op \in {"storeMemory", "searchMemories"}
     /\ c.credentials # Undefined)
    => c.credentials.supabaseKey = NullStr

\* ------------------------------------------------------------------------
\* background.js: handleMessage
\* ------------------------------------------------------------------------

\* handleMessage(request, sender): the request is sanitized and the switch
\* taken on the type of the sanitized request; `return await handler(...)`
\* hands the call over to the handler, whose result is the result.  An
\* exception is logged as MESSAGE_ERROR.  getStats, clearRecentMemories,
\* exportMemories and toggleEnabled begin and are followed no further.
handleMessage(request, sender) ==
  LET sanitizedRequest == sanitizeMessage(request)
      Payload(k) == IF k \in DOMAIN sanitizedRequest.v THEN sanitizedRequest.v[k]
                    ELSE Undefined
      c == [IdleCall EXCEPT !.op = "handleMessage",
                            !.arg = [request |-> request, sender |-> sender]]
      event == SecurityEvent("MESSAGE_ERROR", Now + 1)
      \* handleMessage has returned r; the record keeps the request (history)
      Done(r) == [Returned(c, r) EXCEPT !.arg = c.arg]
      Answer(r) ==
        /\ apiCalls < MaxApiCalls
        /\ apiCalls' = apiCalls + 1
        /\ calls' = Started(Done(r))
        /\ UNCHANGED << storage, memVars, migrationsPersisted, cipher, logged,
                        sanit, manager, sent, replayTimers >>
      Begin(op) ==
        /\ apiCalls < MaxApiCalls
        /\ apiCalls' = apiCalls + 1
        /\ calls' = Started([IdleCall EXCEPT !.op = op, !.pc = "start"])
        /\ UNCHANGED << storage, memVars, migrationsPersisted, cipher, logged,
                        sanit, manager, sent, replayTimers >>
  IN
  /\ CanStart
  /\ IF ~sanitizedRequest.ok
       THEN /\ apiCalls < MaxApiCalls
            /\ apiCalls' = apiCalls + 1
            /\ Now < RingCapacity + MaxEvents
            /\ logged' = Append(logged, event)
            /\ calls' = Started(Done(Ok([error |-> "Request processing failed"]))) (+)
                 SetToBag({[IdleCall EXCEPT !.op = "logSecurityEvent",
                                            !.pc = "E_get",
                                            !.arg = [event |-> event]]})
            /\ UNCHANGED << storage, memVars, migrationsPersisted, cipher, sanit, manager,
                            sent, replayTimers >>
     ELSE IF "type" \notin DOMAIN sanitizedRequest.v
       THEN Answer(Ok([error |-> "Unknown message type"]))
     ELSE CASE sanitizedRequest.v.type = "STORE_MEMORY" ->
                 /\ apiCalls < MaxApiCalls
                 /\ apiCalls' = apiCalls + 1
                 /\ calls' = Started(StoreCall(Payload("data"), sender, Undefined))
                 /\ UNCHANGED << storage, memVars, migrationsPersisted, cipher,
                                 logged, sanit, manager, sent, replayTimers >>
            [] sanitizedRequest.v.type = "SEARCH_MEMORIES" -> SrchStart(Payload("query"))
            [] sanitizedRequest.v.type = "GET_STATS" -> Begin("getStats")
            [] sanitizedRequest.v.type = "CLEAR_RECENT" -> Begin("clearRecentMemories")
            [] sanitizedRequest.v.type = "EXPORT_MEMORIES" -> Begin("exportMemories")
            [] sanitizedRequest.v.type = "UPDATE_CONFIG" -> UpdStart(Payload("config"))
            [] sanitizedRequest.v.type = "TOGGLE_ENABLED" -> Begin("toggleEnabled")
            [] sanitizedRequest.v.type = "CHECK_ENCRYPTION" ->
                 Answer(Ok([encrypted |-> encryptedCredentials # Null]))
            [] OTHER -> Answer(Ok([error |-> "Unknown message type"]))

NextMessage ==
  LET \* the memory "a&b" of the content script, the query "a&b", the
      \* credentials of the options page
      data == Obj([role |-> Str(<<117, 115, 101, 114>>), content |-> Str(<<97, 38, 98>>),
                   site |-> Str(<<99, 104, 97, 116, 103, 112, 116>>)])
      \* the messages the extension's pages send, a message of another type,
      \* and a message that carries a timestamp that is no date: "yesterday"
      Requests ==
        { Obj([type |-> "STORE_MEMORY", data |-> data]),
          Obj([type |-> "SEARCH_MEMORIES", query |-> Str(<<97, 38, 98>>)]),
          Obj([type |-> "GET_STATS"]),
          Obj([type |-> "CLEAR_RECENT"]),
          Obj([type |-> "EXPORT_MEMORIES"]),
          Obj([type |-> "UPDATE_CONFIG", config |-> Obj([enabled |-> [bool |-> TRUE]])]),
          Obj([type |-> "TOGGLE_ENABLED", enabled |-> [bool |-> FALSE]]),
          Obj([type |-> "CHECK_ENCRYPTION"]),
          Obj([type |-> "PING"]),
          Obj([type |-> "GET_STATS", timestamp |-> Str(<<121, 101, 115, 116, 101, 114, 100, 97, 121>>)]) }
  IN
  \/ \E request \in Requests :
       handleMessage(request, Obj([tab |-> Obj([id |-> [num |-> 1]])]))
  \/ \E a \in Activations : EGet(a)
  \/ \E a \in Activations : ESet(a)
  \/ \E a \in Activations : Respond(a)

\* the messages of the content script, the popup and the options page
SpecMessage == InitStore /\ [][NextMessage]_vars

\* ------------------------------------------------------------------------
\* Properties of handleMessage (SpecMessage)
\* ------------------------------------------------------------------------

\* C23: messages are dispatched by type.  A request of one of the eight
\* types is handed to its handler; the answer { error: 'Unknown message
\* type' } is given only to a request of another type.
C23_DispatchByType ==
  \A c \in Activations :
    (/\ c.op = "handleMessage"
     /\ c.pc = "done"
     /\ c.ret = Ok([error |-> "Unknown message type"]))
    => Field(c.arg.request, "type") \notin
         { "STORE_MEMORY", "SEARCH_MEMORIES", "GET_STATS", "CLEAR_RECENT",
           "EXPORT_MEMORIES", "UPDATE_CONFIG", "TOGGLE_ENABLED", "CHECK_ENCRYPTION" }

\* ------------------------------------------------------------------------
\* Properties of the offline queue (SpecStore)
\* ------------------------------------------------------------------------

\* C24: no memory is lost from the offline queue.  When a run of
\* processOfflineQueue writes the queue back and no request has ever been
\* sent to the remote API (so that no memory has been stored there), every
\* memory of the queue the run read is still in the persisted offlineQueue:
\* the persisted queue is not shorter than the queue the run read.
C24_NoLossFromQueue ==
  [][\A a \in Activations :
       (a.pc = "P_set" /\ PSet(a) /\ sent' = << >>)
       => Len(GetList(storage', "offlineQueue")) >= Len(a.arg.offlineQueue)
  ]_vars

\* the service worker starts without credentials and with a persisted
\* offline queue that is full, or one short of full; the memories queued
\* earlier have the contents "1", "2", ...
InitQueue ==
  LET Queued(n) ==
        [i \in 1..n |->
           Obj([role |-> Str(<<117, 115, 101, 114>>), content |-> Str(Digits(i)),
                timestamp |-> Str(IsoNow), url |-> Str(<< >>),
                site |-> Str(<<99, 104, 97, 116, 103, 112, 116>>),
                queuedAt |-> [num |-> 1]])]
  IN
  /\ storage \in { [credentialsMigrated |-> TRUE, userId |-> Uuid,
                    offlineQueue |-> Queued(n)] :
                   n \in {QueueCapacity - 1, QueueCapacity} }
  /\ encryptedCredentials = Null
  /\ sessionPassphrase = NullStr
  /\ userId = storage.userId
  /\ passphraseTimeout = 0
  /\ timers = {}
  /\ calls = EmptyBag
  /\ sinceReset = 0
  /\ cachedByStale = FALSE
  /\ migrationsPersisted = 0
  /\ cipher = CipherOff
  /\ InitOther

NextQueue ==
  LET \* the memory "a&b" of the content script
      memory == Obj([role |-> Str(<<117, 115, 101, 114>>), content |-> Str(<<97, 38, 98>>),
                     site |-> Str(<<99, 104, 97, 116, 103, 112, 116>>)])
  IN
  \/ SStart(memory)
  \/ \E a \in Activations : SEnabled(a)
  \/ \E a \in Activations : SCredentials(a)
  \/ \E a \in Activations : QGet(a)
  \/ \E a \in Activations : QSet(a)
  \/ PStart
  \/ \E a \in Activations : PGet(a)
  \/ \E a \in Activations : PResult(a)
  \/ \E a \in Activations : PSet(a)
  \/ \E a \in Activations : Respond(a)

\* memories queued onto a queue that is full
SpecQueue == InitQueue /\ [][NextQueue]_vars

\* C25: the offline queue is bounded.  The persisted offlineQueue never holds
\* more than 100 memories; a queueForLater that read a full queue writes back
\* that queue without its oldest memory and with the newly queued memory at
\* its end, and its write makes that queue the persisted one.
C25_QueueBounded ==
  [][/\ Len(GetList(storage, "offlineQueue")) <= QueueCapacity
     /\ Len(GetList(storage', "offlineQueue")) <= QueueCapacity
     /\ \A a \in Activations :
          LET read == GetList(storage, "offlineQueue")
              sanitized == sanitizeMessage(a.arg.memory)
          IN /\ (/\ a.pc = "Q_get" /\ QGet(a)
                 /\ Len(read) = QueueCapacity /\ sanitized.ok)
                => \E n \in BagToSet(calls') :
                     /\ n.pc = "Q_set"
                     /\ calls' = Moved(a, n)
                     /\ Len(n.arg.offlineQueue) = QueueCapacity
                     /\ SubSeq(n.arg.offlineQueue, 1, QueueCapacity - 1) = Tail(read)
                     /\ Field(n.arg.offlineQueue[QueueCapacity], "content")
                          = Str(sanitized.v.content)
             /\ (a.pc = "Q_set" /\ QSet(a))
                => GetList(storage', "offlineQueue") = a.arg.offlineQueue
  ]_vars

\* a memory was queued onto the full queue: "2" is now the oldest and the
\* new memory is the last of 100
C25_Witness ==
  LET offlineQueue == GetList(storage, "offlineQueue")
  IN /\ Len(offlineQueue) = QueueCapacity
     /\ Field(offlineQueue[1], "content") = Str(<<50>>)
     /\ Field(offlineQueue[QueueCapacity], "content") = Str(<<97, 38, 97, 109, 112, 59, 98>>)

\* C26: the deduplication window.  storeMemory answers { success: true,
\* duplicate: true } (and sends nothing) only for a memory whose role and
\* first 100 characters were POSTed before by a request that the remote API
\* answered ok.
C26_DuplicateOfStored ==
  [][\A a \in Activations :
       (/\ a.pc = "S_dupGet" /\ SDupGet(a)
        /\ Returned(a, Ok([success |-> TRUE, duplicate |-> TRUE])) \in BagToSet(calls'))
       => \E i \in 1..Len(sent) :
            /\ sent[i].method = "POST"
            /\ sent[i].response = "ok"
            /\ hashMemory(sent[i].body.json) = hashMemory(a.arg.sanitizedMemory)
  ]_vars

\* C27: the cached passphrase matches the loaded blob.  Whenever a session
\* passphrase is cached, it is the passphrase under which the encrypted
\* credentials in memory were encrypted: the blob opens under it.
C27_PassphraseMatchesBlob ==
  Truthy(sessionPassphrase)
  => /\ encryptedCredentials # Null
     /\ Opened(encryptedCredentials, sessionPassphrase).ok

\* ------------------------------------------------------------------------
\* Properties of the saved credentials (SpecInstall)
\* ------------------------------------------------------------------------

C29_OneTimeoutPending ==
  /\ Cardinality(timers) <= 1
  /\ Truthy(sessionPassphrase)
     => /\ sinceReset <= TimeoutTicks
        /\ timers = { [id |-> passphraseTimeout, left |-> TimeoutTicks - sinceReset] }

\* an updateConfig cached its passphrase 5 minutes ago and the timeout it
\* armed is due
C29_Witness ==
  /\ Truthy(sessionPassphrase)
  /\ sinceReset = TimeoutTicks
  /\ timers = { [id |-> passphraseTimeout, left |-> 0] }
  /\ \E c \in Activations : c.op = "updateConfig" /\ c.pc = "done" /\ c.ret = Success
  /\ Opened(encryptedCredentials, sessionPassphrase)
       = Ok([supabaseUrl |-> UrlB, supabaseKey |-> KeyB])

\* ------------------------------------------------------------------------
\* lib/crypto.js: MemoryManager
\* ------------------------------------------------------------------------

\* "Clean old entries": the size of the cache above which the oldest entry
\* is deleted
CacheCapacity == 100

\* clearUserCache(userId): the entries whose key includes userId are deleted
clearUserCache(cache, user) ==
  LET \* key.includes(userId)
      Includes(s, sub) ==
        \E i \in 1..((Len(s) - Len(sub)) + 1) : SubSeq(s, i, (i + Len(sub)) - 1) = sub
  IN SelectSeq(cache, LAMBDA e : ~Includes(e.key, user))

\* getFromCache(key): the value, or null; an entry older than cacheTimeout
\* is deleted.  The result is the value and the cache afterwards
getFromCache(cache, key, now) ==
  LET found == { i \in 1..Len(cache) : cache[i].key = key }
      cached == cache[CHOOSE i \in found : TRUE]
  IN IF found = {} THEN [value |-> Null, cache |-> cache]
     ELSE IF now - cached.timestamp > cacheTimeout
       THEN [value |-> Null, cache |-> SelectSeq(cache, LAMBDA e : e.key # key)]
     ELSE [value |-> cached.value, cache |-> cache]

\* storeMemory(memory): the cache of the user is cleared and
\* supabase.storeMemory(enrichedMemory) called
ManagerStoreMemory(memory) ==
  /\ CanStart
  /\ manager.backend.version < MaxApiCalls
  /\ manager' = [manager EXCEPT !.cache = clearUserCache(manager.cache, memory.user_id)]
  /\ calls' = Started([IdleCall EXCEPT !.op = "MemoryManager.storeMemory",
                                       !.pc = "B_request",
                                       !.arg = [userId |-> memory.user_id]])
  /\ UNCHANGED << storage, memVars, migrationsPersisted, cipher, logged, sanit,
                  remoteVars >>

\* deleteMemories(userId, options): the cache of the user is cleared and
\* supabase.deleteMemories(userId, options) called
ManagerDeleteMemories(user) ==
  /\ CanStart
  /\ manager.backend.version < MaxApiCalls
  /\ manager' = [manager EXCEPT !.cache = clearUserCache(manager.cache, user)]
  /\ calls' = Started([IdleCall EXCEPT !.op = "MemoryManager.deleteMemories",
                                       !.pc = "B_request",
                                       !.arg = [userId |-> user]])
  /\ UNCHANGED << storage, memVars, migrationsPersisted, cipher, logged, sanit,
                  remoteVars >>

\* searchMemories(userId, query, {}): a cached value is returned (a list,
\* even an empty one, is truthy); otherwise semanticSearch calls
\* supabase.searchMemories (extractConversationContext returns null for
\* every query).  after is history: the last write that had returned when
\* the call was made
ManagerSearchMemories(user, query) ==
  LET \* `${userId}:${query}:${JSON.stringify(options)}`, options being {}
      cacheKey == user \o <<58>> \o query \o <<58, 123, 125>>
      cached == getFromCache(manager.cache, cacheKey, manager.now)
      c == [IdleCall EXCEPT !.op = "MemoryManager.searchMemories",
                            !.arg = [userId |-> user, key |-> cacheKey,
                                     after |-> manager.completed]]
  IN
  /\ CanStart
  /\ manager' = [manager EXCEPT !.cache = cached.cache]
  /\ calls' = Started(IF cached.value # Null
                        THEN [Returned(c, Ok(cached.value)) EXCEPT !.arg = c.arg]
                        ELSE [c EXCEPT !.pc = "B_request"])
  /\ UNCHANGED << storage, memVars, migrationsPersisted, cipher, logged, sanit,
                  remoteVars >>

\* getStats(userId): a cached value is returned; otherwise
\* supabase.getMemoryCount(userId) is called
ManagerGetStats(user) ==
  LET \* `stats:${userId}`
      cacheKey == <<115, 116, 97, 116, 115, 58>> \o user
      cached == getFromCache(manager.cache, cacheKey, manager.now)
      c == [IdleCall EXCEPT !.op = "MemoryManager.getStats",
                            !.arg = [userId |-> user, key |-> cacheKey,
                                     after |-> manager.completed]]
  IN
  /\ CanStart
  /\ manager' = [manager EXCEPT !.cache = cached.cache]
  /\ calls' = Started(IF cached.value # Null
                        THEN [Returned(c, Ok(cached.value)) EXCEPT !.arg = c.arg]
                        ELSE [c EXCEPT !.pc = "B_request"])
  /\ UNCHANGED << storage, memVars, migrationsPersisted, cipher, logged, sanit,
                  remoteVars >>

\* the backend serves the request of the Supabase client, or the request
\* fails: a store adds a memory, a delete removes the memories of the user,
\* a search reads the memories and a count their number.  fetched is
\* history: the writes the backend had seen when it was read
BackendServes(a) ==
  /\ a.pc = "B_request"
  /\ \E ok \in BOOLEAN :
       LET backend == manager.backend
           written == IF a.op = "MemoryManager.storeMemory"
                        THEN [memories |-> backend.memories + 1,
                              version |-> backend.version + 1]
                      ELSE IF a.op = "MemoryManager.deleteMemories"
                        THEN [memories |-> 0, version |-> backend.version + 1]
                      ELSE backend
           response == IF ~ok THEN Throw("Failed to fetch")
                       ELSE IF a.op = "MemoryManager.storeMemory"
                              \/ a.op = "MemoryManager.deleteMemories"
                         THEN Ok([version |-> written.version])
                       ELSE IF a.op = "MemoryManager.searchMemories"
                         THEN Ok([memories |-> backend.memories,
                                  fetched |-> backend.version])
                       ELSE Ok([total |-> backend.memories,
                                fetched |-> backend.version])
       IN /\ manager' = [manager EXCEPT !.backend = IF ok THEN written ELSE backend]
          /\ calls' = Moved(a, [a EXCEPT !.pc = "B_response",
                                         !.arg = [response |-> response] @@ a.arg])
  /\ UNCHANGED << storage, memVars, migrationsPersisted, cipher, logged, sanit,
                  remoteVars >>

\* the await of the Supabase client settles: storeMemory and deleteMemories
\* return its result; searchMemories and getStats build their value, add it
\* to the cache and return it.  The list searchMemories returns stands for
\* the rows fetched (deduplicateAndSort and applyTokenBudget choose among
\* them)
ManagerResumes(a) ==
  LET \* addToCache(key, value)
      addToCache(cache, key, value) ==
        LET entry == [key |-> key, value |-> value, timestamp |-> manager.now]
            found == { i \in 1..Len(cache) : cache[i].key = key }
            set == IF found = {} THEN Append(cache, entry)
                   ELSE [i \in 1..Len(cache) |-> IF i \in found THEN entry ELSE cache[i]]
        IN IF Len(set) > CacheCapacity THEN Tail(set) ELSE set
      response == a.arg.response
      total == response.v.total
      stats == [total |-> total,
                hot |-> (total * 6) \div 10,
                warm |-> (total * 3) \div 10,
                cold |-> total \div 10,
                daysActive |-> 1,
                lastSync |-> manager.now,
                storageBytes |-> total * 500,
                fetched |-> response.v.fetched]
      value == IF a.op = "MemoryManager.getStats" THEN stats ELSE response.v
      Done(r) == [Returned(a, r) EXCEPT !.arg = a.arg]
  IN
  /\ a.pc = "B_response"
  /\ IF ~response.ok
       THEN /\ calls' = Moved(a, Done(response))
            /\ UNCHANGED manager
     ELSE IF a.op = "MemoryManager.storeMemory" \/ a.op = "MemoryManager.deleteMemories"
       THEN /\ calls' = Moved(a, Done(response))
            /\ manager' = [manager EXCEPT !.completed =
                             IF response.v.version > manager.completed
                               THEN response.v.version ELSE manager.completed]
     ELSE /\ calls' = Moved(a, Done(Ok(value)))
          /\ manager' = [manager EXCEPT !.cache = addToCache(manager.cache, a.arg.key, value)]
  /\ UNCHANGED << storage, memVars, migrationsPersisted, cipher, logged, sanit,
                  remoteVars >>

\* the clock ticks
ManagerTick ==
  /\ manager.now <= cacheTimeout
  /\ manager' = [manager EXCEPT !.now = manager.now + 1]
  /\ UNCHANGED << storage, memVars, calls, migrationsPersisted, cipher, logged,
                  sanit, remoteVars >>

\* a MemoryManager just constructed
InitManager ==
  /\ storage = EmptyStorage
  /\ InitMemory
  /\ cipher = CipherOff
  /\ InitOther

NextManager ==
  LET \* the query "q"
      query == <<113>>
  IN
  \/ ManagerStoreMemory([user_id |-> Uuid, content |-> <<97, 38, 98>>])
  \/ ManagerDeleteMemories(Uuid)
  \/ ManagerSearchMemories(Uuid, query)
  \/ ManagerGetStats(Uuid)
  \/ \E a \in Activations : BackendServes(a)
  \/ \E a \in Activations : ManagerResumes(a)
  \/ ManagerTick
  \/ \E a \in Activations : Respond(a)

\* the calls of a client of the MemoryManager
SpecManager == InitManager /\ [][NextManager]_vars

\* ------------------------------------------------------------------------
\* Properties of the MemoryManager (SpecManager)
\* ------------------------------------------------------------------------

\* C30: cache invalidation.  A searchMemories or getStats that is called
\* after a storeMemory or deleteMemories of the user has returned does not
\* return a value that was read from the backend before that write.
C30_NoStaleAfterWrite ==
  \A c \in Activations :
    (/\ c.op \in {"MemoryManager.searchMemories", "MemoryManager.getStats"}
     /\ c.pc = "done"
     /\ c.ret.ok)
    => c.ret.v.fetched >= c.arg.after

====
